---------------------------- MODULE Spec2Model ----------------------------
(***************************************************************************)
(* One voice session of the pipeline (backend/internal/voice/pipeline):    *)
(* HandleSession with the inline ingress reader, the four stage tasks      *)
(* (runSTT, runLLM / runLangChain, runTTS, sendAudioToClient), the two     *)
(* sub-tasks of the AssemblyAI adapter and the two sub-tasks of the        *)
(* Cartesia adapter, the channels between them, the event log written to   *)
(* the client socket and the messages persisted by the conversation        *)
(* service.                                                                *)
(*                                                                         *)
(* The client and the three providers are the environment: every socket    *)
(* read of the program is an action whose outcome (a message of some kind, *)
(* an error, a timeout) is chosen by the environment, and that may never   *)
(* happen at all.  Every other step is a step of the program.              *)
(***************************************************************************)
EXTENDS Integers, Sequences, FiniteSets

(***************************************************************************)
(* Bounds of the model.  The capacities are those of audioIn (100 in the   *)
(* program), sttOut (10), llmOut (100), ttsOut (100), the STT adapter's    *)
(* transcriptChan (10) and the TTS adapter's audioChan (100).              *)
(***************************************************************************)
CapAudioIn == 1
CapSttOut == 2
CapLlmOut == 1
CapTtsOut == 1
CapTranscript == 1
CapAudioChan == 1

(***************************************************************************)
(* Program constants.                                                      *)
(***************************************************************************)
\* the receiver's maxConsecutiveErrors, the capacity of textSentChan and of
\* ttsDoneChan, and the buffer length above which the sender submits
maxConsecutiveErrors == 3
CapSignal == 10
maxBufferLen == 120

\* the k-th text delta of the reply to turn n: non-empty strings (sequences
\* of characters), the second of a reply ending a sentence, the third
\* starting with a space and longer than the sender's buffer limit
Letters == <<"a", "b", "c", "d", "e", "f", "g", "h", "i">>
LongText == [i \in 1..(maxBufferLen + 1) |-> "x"]
TokenAt(n, k) ==
    IF k % 3 = 0
      THEN <<" ">> \o LongText
      ELSE <<Letters[((3 * (n - 1) + (k - 1)) % 9) + 1]>>
             \o (IF k % 2 = 0 THEN <<".">> ELSE <<>>)

\* the text of the n-th final transcript: non-empty (client.go:150), all
\* different
UtteranceAt(n) == <<"u", Letters[((n - 1) % 9) + 1]>>

VARIABLES
    env,             \* what the client and the providers do in this session
    mainPc,          \* HandleSession: where the orchestrator is
    useLangChain,    \* session.useLangChain
    createFailed,    \* whether initLangChainSession returned an error
    ctxDone,         \* session.ctx is cancelled
    connClosed,      \* session.conn.Close() was called
    endCalls,        \* calls of conversationService.End
    nFrames,         \* binary frames read from the client so far
    events,          \* every event written by sendEvent, in order
    persisted,       \* every message written by AddMessage, in order
    audioIn, sttOut, llmOut, ttsOut,   \* the stage channels
    sttPc, sttCur,   \* runSTT and the transcript event it holds
    transcriptChan,  \* the STT adapter's output channel
    sttSendPc, sttRecvPc, sttRecvCur,  \* the STT adapter's two sub-tasks
    sttConnFailed, sttConnClosed,
    nFinals, nPartials,
    llmPc, llmCur, llmChunk, fullResponse, nTok, messages, enqueued,
    ttsPc, ttsCur, audioChan,
    ttsSendPc, textBuffer, hasSentText, waitingForDone, submitted,
    ttsRecvPc, expectingAudio, consecutiveErrors,
    errorRun,        \* history: the reads in a row that ended in an error or a panic
    ttsConnFailed, ttsConnClosed, textSentChan, ttsDoneChan,
    nChunks, nDones, nErrs,
    egressPc, egressCur,
    mu, sendEventPc,
    model, anthropicKey, openAIKey,   \* llm.Client.Stream: its inputs
    httpOk,          \* whether the provider answers the request with 200
    streamResult,    \* what Stream did
    now,             \* time.Now(): the wall clock, in ticks
    conversation,    \* the row of the Conversation in the repository
    endCount,        \* calls of ConversationService.End on the row
    db,              \* the tables of the database, soft-deleted rows included
    lastCall,        \* the last call of a repository's Delete and its result
    startTime,       \* session.startTime
    persistTask,     \* runSTT and runLLM at the statements that persist a message
    messageRows,     \* the rows of the messages table, in insertion order
    handshake        \* HandleWebSocket: where it is, and the session ids it made

mainVars ==
    <<env, mainPc, useLangChain, createFailed, ctxDone, connClosed, endCalls,
      nFrames>>
logVars  == <<events, persisted>>
sttVars  == <<sttPc, sttCur>>
sttAVars == <<transcriptChan, sttSendPc, sttRecvPc, sttRecvCur, sttConnFailed,
              sttConnClosed, nFinals, nPartials>>
llmVars  == <<llmPc, llmCur, llmChunk, fullResponse, nTok, messages, enqueued>>
ttsVars  == <<ttsPc, ttsCur>>
ttsSVars == <<ttsSendPc, textBuffer, hasSentText, waitingForDone, submitted>>
ttsRVars ==
    <<ttsRecvPc, expectingAudio, consecutiveErrors, errorRun, nChunks, nDones,
      nErrs>>
ttsAVars == <<audioChan, ttsSVars, ttsRVars, ttsConnFailed, ttsConnClosed,
              textSentChan, ttsDoneChan>>
egrVars  == <<egressPc, egressCur>>
chanVars == <<audioIn, sttOut, llmOut, ttsOut>>
muVars   == <<mu, sendEventPc>>

selVars  == <<model, anthropicKey, openAIKey, httpOk, streamResult>>
convVars == <<now, conversation, endCount>>
repoVars == <<db, lastCall>>
offVars  == <<startTime, persistTask, messageRows>>
svcVars  == <<selVars, convVars, repoVars, offVars, handshake>>
pipeVars == <<mainVars, logVars, sttVars, sttAVars, llmVars, ttsVars, ttsAVars,
              egrVars, chanVars, muVars>>

vars == <<pipeVars, svcVars>>

(***************************************************************************)
(* Channels: a buffer and the closed flag.                                 *)
(***************************************************************************)
NewChan == [buf |-> <<>>, closed |-> FALSE]
CanSend(ch, cap) == Len(ch.buf) < cap
Send(ch, x) == [ch EXCEPT !.buf = Append(@, x)]
CanRecv(ch) == Len(ch.buf) > 0
Recv(ch) == [ch EXCEPT !.buf = Tail(@)]
\* a receive on a closed channel yields ok = false once the buffer is drained
IsDrained(ch) == ch.closed /\ Len(ch.buf) = 0
Close(ch) == [ch EXCEPT !.closed = TRUE]

\* conn.WriteJSON / conn.WriteMessage: fails on a closed connection, and
\* otherwise succeeds unless the network fails the write
WriteOutcome(wok, closed) == IF closed THEN ~wok ELSE (wok \/ env.wfail)

NoEvent == [text |-> 0, partial |-> FALSE]

\* the using_langchain field of the ready event (pipeline.go:150)
ModeFlag(lc) == IF lc THEN <<"true">> ELSE <<"false">>

\* the tasks of a session that call sendEvent: HandleSession and the stage
\* goroutines it starts
Tasks == {"main", "stt", "llm", "tts", "egress"}

\* Session.sendEvent: one JSON write to the client socket under session.mu;
\* a write error is only logged
sendEvent(type, turn, text) ==
    events' = Append(events, [type |-> type, turn |-> turn, text |-> text])

\* ConversationService.AddMessage
AddMessage(role, turn, content) ==
    persisted' = Append(persisted,
                        [role |-> role, turn |-> turn, content |-> content])

InitSession ==
    /\ mainPc = "init" /\ useLangChain = FALSE /\ createFailed = FALSE
    /\ ctxDone = FALSE
    /\ connClosed = FALSE /\ endCalls = 0 /\ nFrames = 0
    /\ events = <<>> /\ persisted = <<>>
    /\ audioIn = NewChan /\ sttOut = NewChan
    /\ llmOut = NewChan /\ ttsOut = NewChan
    /\ sttPc = "idle" /\ sttCur = NoEvent
    /\ transcriptChan = NewChan
    /\ sttSendPc = "idle" /\ sttRecvPc = "idle" /\ sttRecvCur = NoEvent
    /\ sttConnFailed = FALSE /\ sttConnClosed = FALSE
    /\ nFinals = 0 /\ nPartials = 0
    /\ llmPc = "idle" /\ llmCur = NoEvent /\ llmChunk = <<>>
    /\ fullResponse = <<>> /\ nTok = 0 /\ messages = <<>> /\ enqueued = <<>>
    /\ ttsPc = "idle" /\ ttsCur = 0 /\ audioChan = NewChan
    /\ ttsSendPc = "idle" /\ textBuffer = <<>>
    /\ hasSentText = FALSE /\ waitingForDone = FALSE /\ submitted = <<>>
    /\ ttsRecvPc = "idle" /\ expectingAudio = TRUE /\ consecutiveErrors = 0
    /\ errorRun = 0
    /\ ttsConnFailed = FALSE /\ ttsConnClosed = FALSE
    /\ textSentChan = 0 /\ ttsDoneChan = 0 /\ nChunks = 0 /\ nDones = 0
    /\ nErrs = 0
    /\ egressPc = "idle" /\ egressCur = 0
    /\ mu = "free" /\ sendEventPc = [t \in Tasks |-> "idle"]

(***************************************************************************)
(* HandleSession (pipeline.go:119-207) and readAudioFromClient             *)
(* (pipeline.go:247-280), which it runs inline.                            *)
(***************************************************************************)

\* MainInit keeping useLangChain set after a failed CreateAgent
MainInit_NoFallback ==
    /\ mainPc = "init"
    /\ \E conf \in env.modes, ok \in env.create :
          /\ useLangChain' = conf
          /\ createFailed' = (conf /\ ~ok)
    /\ mainPc' = "ready"
    /\ UNCHANGED <<env, ctxDone, connClosed, endCalls, nFrames>>
    /\ UNCHANGED <<logVars, sttVars, sttAVars, llmVars, ttsVars, ttsAVars,
                   egrVars, chanVars>>
    /\ UNCHANGED <<muVars, svcVars>>

\* pipeline.go:134-143: useLangChain is set when the tool-agent service is
\* configured (conf); then CreateAgent is called (pipeline.go:209-231), and
\* when it fails (~ok) useLangChain is reset
MainInit ==
    /\ mainPc = "init"
    /\ \E conf \in env.modes, ok \in env.create :
          /\ useLangChain' = (conf /\ ok)
          /\ createFailed' = (conf /\ ~ok)
    /\ mainPc' = "ready"
    /\ UNCHANGED <<env, ctxDone, connClosed, endCalls, nFrames>>
    /\ UNCHANGED <<logVars, sttVars, sttAVars, llmVars, ttsVars, ttsAVars,
                   egrVars, chanVars>>
    /\ UNCHANGED <<muVars, svcVars>>

\* pipeline.go:145-151
MainReady ==
    /\ mainPc = "ready"
    /\ sendEvent("ready", 0, ModeFlag(useLangChain))
    /\ mainPc' = "spawn"
    /\ UNCHANGED <<env, useLangChain, createFailed, ctxDone, connClosed, endCalls, nFrames>>
    /\ UNCHANGED <<persisted, sttVars, sttAVars, llmVars, ttsVars, ttsAVars,
                   egrVars, chanVars>>
    /\ UNCHANGED <<muVars, svcVars>>

\* MainSpawn taken before the ready event is sent as well
MainSpawn_BeforeReady ==
    /\ mainPc \in {"ready", "spawn"}
    /\ mainPc' = "read"
    /\ sttPc' = "init" /\ llmPc' = "wait" /\ ttsPc' = "init"
    /\ egressPc' = "loop"
    /\ UNCHANGED <<env, useLangChain, createFailed, ctxDone, connClosed, endCalls, nFrames>>
    /\ UNCHANGED <<logVars, sttCur, sttAVars, llmCur, llmChunk, fullResponse,
                   nTok, messages, enqueued, ttsCur, ttsAVars, egressCur,
                   chanVars>>
    /\ UNCHANGED <<muVars, svcVars>>

\* pipeline.go:153-191: the channels are made and the four stage tasks start
MainSpawn ==
    /\ mainPc = "spawn"
    /\ mainPc' = "read"
    /\ sttPc' = "init" /\ llmPc' = "wait" /\ ttsPc' = "init"
    /\ egressPc' = "loop"
    /\ UNCHANGED <<env, useLangChain, createFailed, ctxDone, connClosed, endCalls, nFrames>>
    /\ UNCHANGED <<logVars, sttCur, sttAVars, llmCur, llmChunk, fullResponse,
                   nTok, messages, enqueued, ttsCur, ttsAVars, egressCur,
                   chanVars>>
    /\ UNCHANGED <<muVars, svcVars>>

\* pipeline.go:251-255: the select of the read loop; with the context not
\* cancelled the reader enters ReadMessage on the client socket
IngressSelect ==
    /\ mainPc = "read"
    /\ mainPc' = IF ctxDone THEN "closeAudio" ELSE "reading"
    /\ UNCHANGED <<env, useLangChain, createFailed, ctxDone, connClosed, endCalls, nFrames>>
    /\ UNCHANGED <<logVars, sttVars, sttAVars, llmVars, ttsVars, ttsAVars,
                   egrVars, chanVars>>
    /\ UNCHANGED <<muVars, svcVars>>

\* pipeline.go:255-277: ReadMessage returns.  kind is what the client did:
\* a binary frame, {"type":"end"}, another text frame, or the read failed
\* (the client closed the socket).
ReadKinds == {"binary", "end", "text", "error"}

IngressRead(kind) ==
    /\ mainPc = "reading"
    /\ kind \in env.client
    /\ kind = "binary" => nFrames < env.frames
    /\ mainPc' = CASE kind = "binary" -> "push"
                   [] kind = "text"   -> "read"
                   [] OTHER           -> "closeAudio"
    /\ nFrames' = IF kind = "binary" THEN nFrames + 1 ELSE nFrames
    /\ UNCHANGED <<env, useLangChain, createFailed, ctxDone, connClosed, endCalls>>
    /\ UNCHANGED <<logVars, sttVars, sttAVars, llmVars, ttsVars, ttsAVars,
                   egrVars, chanVars>>
    /\ UNCHANGED <<muVars, svcVars>>

\* pipeline.go:264-268: the frame goes to audioIn, or the context is done
IngressPush ==
    /\ mainPc = "push"
    /\ \/ /\ CanSend(audioIn, CapAudioIn)
          /\ audioIn' = Send(audioIn, nFrames)
          /\ mainPc' = "read"
       \/ /\ ctxDone
          /\ audioIn' = audioIn
          /\ mainPc' = "closeAudio"
    /\ UNCHANGED <<env, useLangChain, createFailed, ctxDone, connClosed, endCalls, nFrames>>
    /\ UNCHANGED <<logVars, sttVars, sttAVars, llmVars, ttsVars, ttsAVars,
                   egrVars, sttOut, llmOut, ttsOut>>
    /\ UNCHANGED <<muVars, svcVars>>

\* pipeline.go:248: defer close(audioOut)
IngressClose ==
    /\ mainPc = "closeAudio"
    /\ audioIn' = Close(audioIn)
    /\ mainPc' = "wait"
    /\ UNCHANGED <<env, useLangChain, createFailed, ctxDone, connClosed, endCalls, nFrames>>
    /\ UNCHANGED <<logVars, sttVars, sttAVars, llmVars, ttsVars, ttsAVars,
                   egrVars, sttOut, llmOut, ttsOut>>
    /\ UNCHANGED <<muVars, svcVars>>

StagesExited ==
    sttPc = "done" /\ llmPc = "done" /\ ttsPc = "done" /\ egressPc = "done"

\* MainWait without the join: wg.Wait() returns at once
MainWait_NoJoin ==
    /\ mainPc = "wait"
    /\ mainPc' = "end"
    /\ UNCHANGED <<env, useLangChain, createFailed, ctxDone, connClosed, endCalls, nFrames>>
    /\ UNCHANGED <<logVars, sttVars, sttAVars, llmVars, ttsVars, ttsAVars,
                   egrVars, chanVars>>
    /\ UNCHANGED <<muVars, svcVars>>

\* pipeline.go:197: wg.Wait()
MainWait ==
    /\ mainPc = "wait"
    /\ StagesExited
    /\ mainPc' = "end"
    /\ UNCHANGED <<env, useLangChain, createFailed, ctxDone, connClosed, endCalls, nFrames>>
    /\ UNCHANGED <<logVars, sttVars, sttAVars, llmVars, ttsVars, ttsAVars,
                   egrVars, chanVars>>
    /\ UNCHANGED <<muVars, svcVars>>

\* pipeline.go:200-204
MainEnd ==
    /\ mainPc = "end"
    /\ endCalls' = endCalls + 1
    /\ mainPc' = "sessionEnd"
    /\ UNCHANGED <<env, useLangChain, createFailed, ctxDone, connClosed, nFrames>>
    /\ UNCHANGED <<logVars, sttVars, sttAVars, llmVars, ttsVars, ttsAVars,
                   egrVars, chanVars>>
    /\ UNCHANGED <<muVars, svcVars>>

\* pipeline.go:206
MainSessionEnd ==
    /\ mainPc = "sessionEnd"
    /\ sendEvent("session_end", 0, <<>>)
    /\ mainPc' = "cancel"
    /\ UNCHANGED <<env, useLangChain, createFailed, ctxDone, connClosed, endCalls, nFrames>>
    /\ UNCHANGED <<persisted, sttVars, sttAVars, llmVars, ttsVars, ttsAVars,
                   egrVars, chanVars>>
    /\ UNCHANGED <<muVars, svcVars>>

\* pipeline.go:121: the deferred session.cancel()
MainCancel ==
    /\ mainPc = "cancel"
    /\ ctxDone' = TRUE
    /\ mainPc' = "closeConn"
    /\ UNCHANGED <<env, useLangChain, createFailed, connClosed, endCalls, nFrames>>
    /\ UNCHANGED <<logVars, sttVars, sttAVars, llmVars, ttsVars, ttsAVars,
                   egrVars, chanVars>>
    /\ UNCHANGED <<muVars, svcVars>>

\* pipeline.go:122-131: the deferred session.conn.Close(); HandleSession
\* returns
MainCloseConn ==
    /\ mainPc = "closeConn"
    /\ connClosed' = TRUE
    /\ mainPc' = "returned"
    /\ UNCHANGED <<env, useLangChain, createFailed, ctxDone, endCalls, nFrames>>
    /\ UNCHANGED <<logVars, sttVars, sttAVars, llmVars, ttsVars, ttsAVars,
                   egrVars, chanVars>>
    /\ UNCHANGED <<muVars, svcVars>>

(***************************************************************************)
(* runSTT (pipeline.go:282-326).                                           *)
(***************************************************************************)

\* pipeline.go:285: sttClient.Stream; it fails when the API key is missing
\* or the dial fails (assemblyai/client.go:29-40), else the adapter's two
\* sub-tasks start
STTInit(ok) ==
    /\ sttPc = "init"
    /\ IF ok
         THEN sttPc' = "loop" /\ sttSendPc' = "run" /\ sttRecvPc' = "run"
         ELSE sttPc' = "error" /\ UNCHANGED <<sttSendPc, sttRecvPc>>
    /\ UNCHANGED <<sttCur, transcriptChan, sttRecvCur, sttConnFailed,
                   sttConnClosed, nFinals, nPartials>>
    /\ UNCHANGED <<mainVars, logVars, llmVars, ttsVars, ttsAVars, egrVars,
                   chanVars>>
    /\ UNCHANGED <<muVars, svcVars>>

\* pipeline.go:287-289
STTError ==
    /\ sttPc = "error"
    /\ sendEvent("error", 0, <<"S", "T", "T">>)
    /\ sttPc' = "close"
    /\ UNCHANGED <<sttCur, persisted>>
    /\ UNCHANGED <<mainVars, sttAVars, llmVars, ttsVars, ttsAVars, egrVars,
                   chanVars>>
    /\ UNCHANGED <<muVars, svcVars>>

\* pipeline.go:295-301: the select of the loop
STTLoop ==
    /\ sttPc = "loop"
    /\ \/ /\ ctxDone
          /\ sttPc' = "close"
          /\ UNCHANGED <<sttCur, transcriptChan>>
       \/ /\ CanRecv(transcriptChan)
          /\ sttCur' = Head(transcriptChan.buf)
          /\ transcriptChan' = Recv(transcriptChan)
          /\ sttPc' = "emit"
       \/ /\ IsDrained(transcriptChan)
          /\ sttPc' = "close"
          /\ UNCHANGED <<sttCur, transcriptChan>>
    /\ UNCHANGED <<sttSendPc, sttRecvPc, sttRecvCur, sttConnFailed,
                   sttConnClosed, nFinals, nPartials>>
    /\ UNCHANGED <<mainVars, logVars, llmVars, ttsVars, ttsAVars, egrVars,
                   chanVars>>
    /\ UNCHANGED <<muVars, svcVars>>

\* STTEmit forwarding a final transcript without its stt_output event
STTEmit_NoOutput ==
    /\ sttPc = "emit"
    /\ IF sttCur.partial
         THEN sendEvent("stt_chunk", 0, <<>>) /\ sttPc' = "loop"
         ELSE events' = events /\ sttPc' = "persist"
    /\ UNCHANGED <<sttCur, persisted>>
    /\ UNCHANGED <<mainVars, sttAVars, llmVars, ttsVars, ttsAVars, egrVars,
                   chanVars>>
    /\ UNCHANGED <<muVars, svcVars>>

\* STTEmit treating a partial transcript like a final one after its stt_chunk
STTEmit_PartialForward ==
    /\ sttPc = "emit"
    /\ IF sttCur.partial
         THEN sendEvent("stt_chunk", 0, <<>>) /\ sttPc' = "persist"
         ELSE /\ sendEvent("stt_output", sttCur.text, UtteranceAt(sttCur.text))
              /\ sttPc' = "persist"
    /\ UNCHANGED <<sttCur, persisted>>
    /\ UNCHANGED <<mainVars, sttAVars, llmVars, ttsVars, ttsAVars, egrVars,
                   chanVars>>
    /\ UNCHANGED <<muVars, svcVars>>

\* pipeline.go:303-307: stt_chunk for a partial, stt_output for a final
STTEmit ==
    /\ sttPc = "emit"
    /\ IF sttCur.partial
         THEN sendEvent("stt_chunk", 0, <<>>) /\ sttPc' = "loop"
         ELSE /\ sendEvent("stt_output", sttCur.text, UtteranceAt(sttCur.text))
              /\ sttPc' = "persist"
    /\ UNCHANGED <<sttCur, persisted>>
    /\ UNCHANGED <<mainVars, sttAVars, llmVars, ttsVars, ttsAVars, egrVars,
                   chanVars>>
    /\ UNCHANGED <<muVars, svcVars>>

\* STTPersist without the AddMessage call
STTPersist_Nothing ==
    /\ sttPc = "persist"
    /\ persisted' = persisted
    /\ sttPc' = "push"
    /\ UNCHANGED <<sttCur, events>>
    /\ UNCHANGED <<mainVars, sttAVars, llmVars, ttsVars, ttsAVars, egrVars,
                   chanVars>>
    /\ UNCHANGED <<muVars, svcVars>>

\* pipeline.go:309-316
STTPersist ==
    /\ sttPc = "persist"
    /\ AddMessage("user", sttCur.text, UtteranceAt(sttCur.text))
    /\ sttPc' = "push"
    /\ UNCHANGED <<sttCur, events>>
    /\ UNCHANGED <<mainVars, sttAVars, llmVars, ttsVars, ttsAVars, egrVars,
                   chanVars>>
    /\ UNCHANGED <<muVars, svcVars>>

\* pipeline.go:318-322
STTPush ==
    /\ sttPc = "push"
    /\ \/ /\ CanSend(sttOut, CapSttOut)
          /\ sttOut' = Send(sttOut, sttCur)
          /\ sttPc' = "loop"
       \/ /\ ctxDone
          /\ sttOut' = sttOut
          /\ sttPc' = "close"
    /\ UNCHANGED <<sttCur, audioIn, llmOut, ttsOut>>
    /\ UNCHANGED <<mainVars, logVars, sttAVars, llmVars, ttsVars, ttsAVars,
                   egrVars>>
    /\ UNCHANGED <<muVars, svcVars>>

\* pipeline.go:283: defer close(sttOut)
STTClose ==
    /\ sttPc = "close"
    /\ sttOut' = Close(sttOut)
    /\ sttPc' = "done"
    /\ UNCHANGED <<sttCur, audioIn, llmOut, ttsOut>>
    /\ UNCHANGED <<mainVars, logVars, sttAVars, llmVars, ttsVars, ttsAVars,
                   egrVars>>
    /\ UNCHANGED <<muVars, svcVars>>

(***************************************************************************)
(* The AssemblyAI adapter (assemblyai/client.go:26-185).                   *)
(***************************************************************************)

\* client.go:50-74, the sender: on a cancelled context or a closed audioIn
\* it writes Terminate and exits; a frame is written to the provider socket
\* and a failed write ends the sender
STTSender(wok) ==
    /\ sttSendPc = "run"
    /\ WriteOutcome(wok, sttConnClosed)
    /\ \/ /\ ctxDone
          /\ sttSendPc' = "done"
          /\ audioIn' = audioIn
       \/ /\ IsDrained(audioIn)
          /\ sttSendPc' = "done"
          /\ audioIn' = audioIn
       \/ /\ CanRecv(audioIn)
          /\ audioIn' = Recv(audioIn)
          /\ sttSendPc' = IF wok THEN "run" ELSE "done"
    /\ UNCHANGED <<transcriptChan, sttRecvPc, sttRecvCur, sttConnFailed,
                   sttConnClosed, nFinals, nPartials>>
    /\ UNCHANGED <<mainVars, logVars, sttVars, llmVars, ttsVars, ttsAVars,
                   egrVars, sttOut, llmOut, ttsOut>>
    /\ UNCHANGED <<muVars, svcVars>>

\* client.go:93-102: the head of the receive loop; with the context not
\* cancelled the receiver enters ReadMessage, which has no deadline
STTRecvSelect ==
    /\ sttRecvPc = "run"
    /\ sttRecvPc' = IF sttConnFailed \/ ctxDone THEN "exit" ELSE "reading"
    /\ UNCHANGED <<transcriptChan, sttSendPc, sttRecvCur, sttConnFailed,
                   sttConnClosed, nFinals, nPartials>>
    /\ UNCHANGED <<mainVars, logVars, sttVars, llmVars, ttsVars, ttsAVars,
                   egrVars, chanVars>>
    /\ UNCHANGED <<muVars, svcVars>>

\* client.go:103-175: ReadMessage returns.  kind is what the provider did:
\* a Turn with text (partial or final), a message that is skipped (Begin,
\* an empty Turn, an unparsable or unknown message), Termination, or the
\* read failed.
STTReadKinds == {"partial", "final", "skip", "termination", "error"}

STTRecvRead(kind) ==
    /\ sttRecvPc = "reading"
    /\ kind \in env.stt
    /\ kind = "partial" => nPartials < env.partials
    /\ kind = "final" => nFinals < env.finals
    /\ sttConnFailed' = (sttConnFailed \/ kind = "error")
    /\ nPartials' = IF kind = "partial" THEN nPartials + 1 ELSE nPartials
    /\ nFinals' = IF kind = "final" THEN nFinals + 1 ELSE nFinals
    /\ sttRecvCur' = CASE kind = "partial" -> [text |-> 0, partial |-> TRUE]
                       [] kind = "final" ->
                            [text |-> nFinals + 1, partial |-> FALSE]
                       [] OTHER -> sttRecvCur
    /\ sttRecvPc' = CASE kind \in {"partial", "final"} -> "push"
                      [] kind = "skip" -> "run"
                      [] OTHER -> "exit"
    /\ UNCHANGED <<transcriptChan, sttSendPc, sttConnClosed>>
    /\ UNCHANGED <<mainVars, logVars, sttVars, llmVars, ttsVars, ttsAVars,
                   egrVars, chanVars>>
    /\ UNCHANGED <<muVars, svcVars>>

\* client.go:164-168
STTRecvPush ==
    /\ sttRecvPc = "push"
    /\ \/ /\ CanSend(transcriptChan, CapTranscript)
          /\ transcriptChan' = Send(transcriptChan, sttRecvCur)
          /\ sttRecvPc' = "run"
       \/ /\ ctxDone
          /\ transcriptChan' = transcriptChan
          /\ sttRecvPc' = "exit"
    /\ UNCHANGED <<sttSendPc, sttRecvCur, sttConnFailed, sttConnClosed, nFinals, nPartials>>
    /\ UNCHANGED <<mainVars, logVars, sttVars, llmVars, ttsVars, ttsAVars,
                   egrVars, chanVars>>
    /\ UNCHANGED <<muVars, svcVars>>

\* STTRecvExit without the deferred conn.Close()
STTRecvExit_NoClose ==
    /\ sttRecvPc = "exit"
    /\ transcriptChan' = Close(transcriptChan)
    /\ sttRecvPc' = "done"
    /\ UNCHANGED <<sttSendPc, sttRecvCur, sttConnFailed, sttConnClosed,
                   nFinals, nPartials>>
    /\ UNCHANGED <<mainVars, logVars, sttVars, llmVars, ttsVars, ttsAVars,
                   egrVars, chanVars>>
    /\ UNCHANGED <<muVars, svcVars>>

\* client.go:82-91: the receiver's defers: conn.Close(), close(transcriptChan)
STTRecvExit ==
    /\ sttRecvPc = "exit"
    /\ sttConnClosed' = TRUE
    /\ transcriptChan' = Close(transcriptChan)
    /\ sttRecvPc' = "done"
    /\ UNCHANGED <<sttSendPc, sttRecvCur, sttConnFailed,
                   nFinals, nPartials>>
    /\ UNCHANGED <<mainVars, logVars, sttVars, llmVars, ttsVars, ttsAVars,
                   egrVars, chanVars>>
    /\ UNCHANGED <<muVars, svcVars>>

(***************************************************************************)
(* The LLM stage: runLLM (pipeline.go:378-445) when useLangChain is false, *)
(* runLangChain (pipeline.go:329-375) when it is true.  The two differ in  *)
(* the dialogue buffer session.messages, which only runLLM keeps.          *)
(***************************************************************************)

\* LLMWait taking the newest transcript queued on sttOut instead of the oldest
LLMWait_Newest ==
    /\ llmPc = "wait"
    /\ \/ /\ ctxDone
          /\ llmPc' = "close"
          /\ UNCHANGED <<llmCur, messages, sttOut>>
       \/ /\ CanRecv(sttOut)
          /\ llmCur' = sttOut.buf[Len(sttOut.buf)]
          /\ sttOut' = [sttOut EXCEPT
                          !.buf = SubSeq(@, 1, Len(sttOut.buf) - 1)]
          /\ messages' = IF useLangChain THEN messages
                         ELSE Append(messages,
                                     [role |-> "user",
                                      content |-> sttOut.buf[Len(sttOut.buf)].text])
          /\ llmPc' = "open"
       \/ /\ IsDrained(sttOut)
          /\ llmPc' = "close"
          /\ UNCHANGED <<llmCur, messages, sttOut>>
    /\ UNCHANGED <<llmChunk, fullResponse, nTok, enqueued, audioIn, llmOut,
                   ttsOut>>
    /\ UNCHANGED <<mainVars, logVars, sttVars, sttAVars, ttsVars, ttsAVars,
                   egrVars>>
    /\ UNCHANGED <<muVars, svcVars>>

\* pipeline.go:382-397 / 333-339: the select of the loop; runLLM appends the
\* user turn to session.messages
LLMWait ==
    /\ llmPc = "wait"
    /\ \/ /\ ctxDone
          /\ llmPc' = "close"
          /\ UNCHANGED <<llmCur, messages, sttOut>>
       \/ /\ CanRecv(sttOut)
          /\ llmCur' = Head(sttOut.buf)
          /\ sttOut' = Recv(sttOut)
          /\ messages' = IF useLangChain THEN messages
                         ELSE Append(messages, [role |-> "user",
                                                content |-> Head(sttOut.buf).text])
          /\ llmPc' = "open"
       \/ /\ IsDrained(sttOut)
          /\ llmPc' = "close"
          /\ UNCHANGED <<llmCur, messages, sttOut>>
    /\ UNCHANGED <<llmChunk, fullResponse, nTok, enqueued, audioIn, llmOut,
                   ttsOut>>
    /\ UNCHANGED <<mainVars, logVars, sttVars, sttAVars, ttsVars, ttsAVars,
                   egrVars>>
    /\ UNCHANGED <<muVars, svcVars>>

\* pipeline.go:399-412 / 342-348: the stream is opened; it fails when no
\* key is configured or the request fails (llm/client.go:73, 215-226)
LLMOpen(ok) ==
    /\ llmPc = "open"
    /\ llmPc' = IF ok THEN "stream" ELSE "error"
    /\ fullResponse' = <<>>
    /\ nTok' = 0
    /\ UNCHANGED <<llmCur, llmChunk, messages, enqueued>>
    /\ UNCHANGED <<mainVars, logVars, sttVars, sttAVars, ttsVars, ttsAVars,
                   egrVars, chanVars>>
    /\ UNCHANGED <<muVars, svcVars>>

\* pipeline.go:409-411 / 345-347: the error event, then continue
LLMError ==
    /\ llmPc = "error"
    /\ sendEvent("error", llmCur.text, <<"L", "L", "M">>)
    /\ llmPc' = "wait"
    /\ UNCHANGED <<persisted, llmCur, llmChunk, fullResponse, nTok, messages,
                   enqueued>>
    /\ UNCHANGED <<mainVars, sttVars, sttAVars, ttsVars, ttsAVars, egrVars,
                   chanVars>>
    /\ UNCHANGED <<muVars, svcVars>>

\* LLMDelta keeping only the last delta in fullResponse
LLMDelta_Overwrite ==
    /\ llmPc = "stream"
    /\ nTok < (IF llmCur.text = 1 THEN env.tokens ELSE env.later)
    /\ llmChunk' = TokenAt(llmCur.text, nTok + 1)
    /\ fullResponse' = TokenAt(llmCur.text, nTok + 1)
    /\ nTok' = nTok + 1
    /\ llmPc' = "chunk"
    /\ UNCHANGED <<llmCur, messages, enqueued>>
    /\ UNCHANGED <<mainVars, logVars, sttVars, sttAVars, ttsVars, ttsAVars,
                   egrVars, chanVars>>
    /\ UNCHANGED <<muVars, svcVars>>

\* pipeline.go:414-415 / 350-351: the stream delivers a text delta, which is
\* never empty (llm/client.go:270, 384), and it is added to fullResponse.
\* The provider's reply to the first turn has at most env.tokens deltas and
\* its reply to a later turn at most env.later.
LLMDelta ==
    /\ llmPc = "stream"
    /\ nTok < (IF llmCur.text = 1 THEN env.tokens ELSE env.later)
    /\ llmChunk' = TokenAt(llmCur.text, nTok + 1)
    /\ fullResponse' = fullResponse \o TokenAt(llmCur.text, nTok + 1)
    /\ nTok' = nTok + 1
    /\ llmPc' = "chunk"
    /\ UNCHANGED <<llmCur, messages, enqueued>>
    /\ UNCHANGED <<mainVars, logVars, sttVars, sttAVars, ttsVars, ttsAVars,
                   egrVars, chanVars>>
    /\ UNCHANGED <<muVars, svcVars>>

\* pipeline.go:416 / 352
LLMChunkEvent ==
    /\ llmPc = "chunk"
    /\ sendEvent("agent_chunk", llmCur.text, llmChunk)
    /\ llmPc' = "push"
    /\ UNCHANGED <<persisted, llmCur, llmChunk, fullResponse, nTok, messages,
                   enqueued>>
    /\ UNCHANGED <<mainVars, sttVars, sttAVars, ttsVars, ttsAVars, egrVars,
                   chanVars>>
    /\ UNCHANGED <<muVars, svcVars>>

\* pipeline.go:418-422 / 354-358
LLMPush ==
    /\ llmPc = "push"
    /\ \/ /\ CanSend(llmOut, CapLlmOut)
          /\ llmOut' = Send(llmOut, llmChunk)
          /\ enqueued' = Append(enqueued,
                                [turn |-> llmCur.text, text |-> llmChunk])
          /\ llmPc' = "stream"
       \/ /\ ctxDone
          /\ UNCHANGED <<llmOut, enqueued>>
          /\ llmPc' = "close"
    /\ UNCHANGED <<llmCur, llmChunk, fullResponse, nTok, messages, audioIn,
                   sttOut, ttsOut>>
    /\ UNCHANGED <<mainVars, logVars, sttVars, sttAVars, ttsVars, ttsAVars,
                   egrVars>>
    /\ UNCHANGED <<muVars, svcVars>>

\* pipeline.go:414, 425-426 / 350, 361-362: the stream ended (responseChan
\* is closed) and agent_end is written
LLMAgentEnd ==
    /\ llmPc = "stream"
    /\ sendEvent("agent_end", llmCur.text, <<>>)
    /\ llmPc' = "persist"
    /\ UNCHANGED <<persisted, llmCur, llmChunk, fullResponse, nTok, messages,
                   enqueued>>
    /\ UNCHANGED <<mainVars, sttVars, sttAVars, ttsVars, ttsAVars, egrVars,
                   chanVars>>
    /\ UNCHANGED <<muVars, svcVars>>

\* pipeline.go:428-442 / 364-372: the reply is appended to session.messages
\* (runLLM) and persisted
LLMPersist ==
    /\ llmPc = "persist"
    /\ messages' = IF useLangChain THEN messages
                   ELSE Append(messages, [role |-> "assistant",
                                          content |-> fullResponse])
    /\ AddMessage("assistant", llmCur.text, fullResponse)
    /\ llmPc' = "wait"
    /\ UNCHANGED <<events, llmCur, llmChunk, fullResponse, nTok, enqueued>>
    /\ UNCHANGED <<mainVars, sttVars, sttAVars, ttsVars, ttsAVars, egrVars,
                   chanVars>>
    /\ UNCHANGED <<muVars, svcVars>>

\* pipeline.go:379 / 330: defer close(llmOut)
LLMClose ==
    /\ llmPc = "close"
    /\ llmOut' = Close(llmOut)
    /\ llmPc' = "done"
    /\ UNCHANGED <<llmCur, llmChunk, fullResponse, nTok, messages, enqueued,
                   audioIn, sttOut, ttsOut>>
    /\ UNCHANGED <<mainVars, logVars, sttVars, sttAVars, ttsVars, ttsAVars,
                   egrVars>>
    /\ UNCHANGED <<muVars, svcVars>>

(***************************************************************************)
(* runTTS (pipeline.go:447-475) and sendAudioToClient (pipeline.go:477-492)*)
(***************************************************************************)

\* pipeline.go:450: ttsClient.Stream; it fails when the API key is missing
\* or the dial fails, else the adapter's two sub-tasks start
TTSInit(ok) ==
    /\ ttsPc = "init"
    /\ IF ok
         THEN ttsPc' = "loop" /\ ttsSendPc' = "check" /\ ttsRecvPc' = "loop"
         ELSE ttsPc' = "error" /\ UNCHANGED <<ttsSendPc, ttsRecvPc>>
    /\ UNCHANGED <<ttsCur, audioChan, textBuffer, hasSentText, waitingForDone,
                   submitted, nErrs,
                   expectingAudio, consecutiveErrors, errorRun, nChunks, nDones,
                   ttsConnFailed,
                   ttsConnClosed, textSentChan, ttsDoneChan>>
    /\ UNCHANGED <<mainVars, logVars, sttVars, sttAVars, llmVars, egrVars,
                   chanVars>>
    /\ UNCHANGED <<muVars, svcVars>>

\* pipeline.go:452-454
TTSError ==
    /\ ttsPc = "error"
    /\ sendEvent("error", 0, <<"T", "T", "S">>)
    /\ ttsPc' = "close"
    /\ UNCHANGED <<persisted, ttsCur>>
    /\ UNCHANGED <<mainVars, sttVars, sttAVars, llmVars, ttsAVars, egrVars,
                   chanVars>>
    /\ UNCHANGED <<muVars, svcVars>>

\* pipeline.go:460-466
TTSLoop ==
    /\ ttsPc = "loop"
    /\ \/ /\ ctxDone
          /\ ttsPc' = "close"
          /\ UNCHANGED <<ttsCur, audioChan>>
       \/ /\ CanRecv(audioChan)
          /\ ttsCur' = Head(audioChan.buf)
          /\ audioChan' = Recv(audioChan)
          /\ ttsPc' = "push"
       \/ /\ IsDrained(audioChan)
          /\ ttsPc' = "close"
          /\ UNCHANGED <<ttsCur, audioChan>>
    /\ UNCHANGED <<ttsSVars, ttsRVars, ttsConnFailed, ttsConnClosed,
                   textSentChan, ttsDoneChan>>
    /\ UNCHANGED <<mainVars, logVars, sttVars, sttAVars, llmVars, egrVars,
                   chanVars>>
    /\ UNCHANGED <<muVars, svcVars>>

\* pipeline.go:468-472
TTSPush ==
    /\ ttsPc = "push"
    /\ \/ /\ CanSend(ttsOut, CapTtsOut)
          /\ ttsOut' = Send(ttsOut, ttsCur)
          /\ ttsPc' = "loop"
       \/ /\ ctxDone
          /\ ttsOut' = ttsOut
          /\ ttsPc' = "close"
    /\ UNCHANGED <<ttsCur, audioIn, sttOut, llmOut>>
    /\ UNCHANGED <<mainVars, logVars, sttVars, sttAVars, llmVars, ttsAVars,
                   egrVars>>
    /\ UNCHANGED <<muVars, svcVars>>

\* pipeline.go:448: defer close(ttsOut)
TTSClose ==
    /\ ttsPc = "close"
    /\ ttsOut' = Close(ttsOut)
    /\ ttsPc' = "done"
    /\ UNCHANGED <<ttsCur, audioIn, sttOut, llmOut>>
    /\ UNCHANGED <<mainVars, logVars, sttVars, sttAVars, llmVars, ttsAVars,
                   egrVars>>
    /\ UNCHANGED <<muVars, svcVars>>

\* pipeline.go:479-485
EgressLoop ==
    /\ egressPc = "loop"
    /\ \/ /\ ctxDone
          /\ egressPc' = "done"
          /\ UNCHANGED <<egressCur, ttsOut>>
       \/ /\ CanRecv(ttsOut)
          /\ egressCur' = Head(ttsOut.buf)
          /\ ttsOut' = Recv(ttsOut)
          /\ egressPc' = "emit"
       \/ /\ IsDrained(ttsOut)
          /\ egressPc' = "done"
          /\ UNCHANGED <<egressCur, ttsOut>>
    /\ UNCHANGED <<audioIn, sttOut, llmOut>>
    /\ UNCHANGED <<mainVars, logVars, sttVars, sttAVars, llmVars, ttsVars,
                   ttsAVars>>
    /\ UNCHANGED <<muVars, svcVars>>

\* pipeline.go:487-489
EgressEmit ==
    /\ egressPc = "emit"
    /\ sendEvent("tts_chunk", 0, <<>>)
    /\ egressPc' = "loop"
    /\ UNCHANGED <<persisted, egressCur>>
    /\ UNCHANGED <<mainVars, sttVars, sttAVars, llmVars, ttsVars, ttsAVars,
                   chanVars>>
    /\ UNCHANGED <<muVars, svcVars>>

(***************************************************************************)
(* The Cartesia adapter: Client.Stream, sender and receiver sub-tasks.     *)
(***************************************************************************)

IsSpace(c) == c = " "

RECURSIVE TrimLeft(_)
TrimLeft(t) ==
    IF t # <<>> /\ IsSpace(Head(t)) THEN TrimLeft(Tail(t)) ELSE t

RECURSIVE TrimRight(_)
TrimRight(t) ==
    IF t # <<>> /\ IsSpace(t[Len(t)])
      THEN TrimRight(SubSeq(t, 1, Len(t) - 1))
      ELSE t

\* strings.TrimSpace
TrimSpace(t) == TrimRight(TrimLeft(t))

\* strings.HasSuffix(strings.TrimSpace(t), c)
HasSuffix(t, c) == TrimSpace(t) # <<>> /\ TrimSpace(t)[Len(TrimSpace(t))] = c

EndsSentence(t) == HasSuffix(t, ".") \/ HasSuffix(t, "!") \/ HasSuffix(t, "?")

\* Submits without the wait for the done message of the earlier submission
Submits_NoGate(buf, wfd) ==
    /\ ~ttsConnFailed
    /\ TrimSpace(buf) # <<>>

\* sendBuffer of the sender: whether it writes a submission, given the buffer
\* and waitingForDone at the call
Submits(buf, wfd) ==
    /\ ~(wfd /\ hasSentText)
    /\ ~ttsConnFailed
    /\ TrimSpace(buf) # <<>>

\* sendBuffer's result; wok is whether the write to the provider succeeds
sendBufferOk(buf, wfd, wok) ==
    \/ wfd /\ hasSentText
    \/ ~ttsConnFailed /\ (TrimSpace(buf) = <<>> \/ wok)

\* sendBuffer's effect
sendBuffer(buf, wfd, wok) ==
    LET sent == Submits(buf, wfd) /\ wok
    IN  /\ textBuffer' = IF sent THEN <<>> ELSE buf
        /\ hasSentText' = (hasSentText \/ sent)
        /\ waitingForDone' = (wfd \/ sent)
        /\ ttsConnFailed' = (ttsConnFailed \/ (Submits(buf, wfd) /\ ~wok))
        /\ textSentChan' = IF sent /\ textSentChan < CapSignal
                             THEN textSentChan + 1 ELSE textSentChan

\* the record of the sender's writes to the provider: the text of each
\* submission and the case of the sender's loop that called sendBuffer
noteSubmission(buf, wfd, wok, site) ==
    submitted' = IF Submits(buf, wfd) /\ wok
                   THEN Append(submitted,
                               [text |-> TrimSpace(buf), by |-> site])
                   ELSE submitted

\* the head of the sender's loop: it exits once the connection has failed
TTSSendCheck ==
    /\ ttsSendPc = "check"
    /\ ttsSendPc' = IF ttsConnFailed THEN "done" ELSE "select"
    /\ UNCHANGED <<audioChan, textBuffer, hasSentText, waitingForDone,
                   submitted, ttsRVars, ttsConnFailed, ttsConnClosed, textSentChan,
                   ttsDoneChan>>
    /\ UNCHANGED <<mainVars, logVars, sttVars, sttAVars, llmVars, ttsVars,
                   egrVars, chanVars>>
    /\ UNCHANGED <<muVars, svcVars>>

\* TTSSendDone opening the gate without submitting the buffered text
TTSSendDone_NoResubmit(wok) ==
    /\ ttsSendPc = "select"
    /\ ttsDoneChan > 0
    /\ WriteOutcome(wok, ttsConnClosed)
    /\ ttsDoneChan' = ttsDoneChan - 1
    /\ waitingForDone' = FALSE
    /\ ttsSendPc' = "check"
    /\ UNCHANGED <<textBuffer, hasSentText, ttsConnFailed, textSentChan,
                   submitted>>
    /\ UNCHANGED <<audioChan, ttsRVars, ttsConnClosed>>
    /\ UNCHANGED <<mainVars, logVars, sttVars, sttAVars, llmVars, ttsVars,
                   egrVars, chanVars>>
    /\ UNCHANGED <<muVars, svcVars>>

\* case <-ttsDoneChan: the gate opens and buffered text is submitted
TTSSendDone(wok) ==
    /\ ttsSendPc = "select"
    /\ ttsDoneChan > 0
    /\ WriteOutcome(wok, ttsConnClosed)
    /\ ttsDoneChan' = ttsDoneChan - 1
    /\ IF Len(textBuffer) > 0
         THEN /\ sendBuffer(textBuffer, FALSE, wok)
              /\ noteSubmission(textBuffer, FALSE, wok, "done")
              /\ ttsSendPc' = IF sendBufferOk(textBuffer, FALSE, wok)
                                THEN "check" ELSE "done"
         ELSE /\ waitingForDone' = FALSE
              /\ ttsSendPc' = "check"
              /\ UNCHANGED <<textBuffer, hasSentText, ttsConnFailed,
                             textSentChan, submitted>>
    /\ UNCHANGED <<audioChan, ttsRVars, ttsConnClosed>>
    /\ UNCHANGED <<mainVars, logVars, sttVars, sttAVars, llmVars, ttsVars,
                   egrVars, chanVars>>
    /\ UNCHANGED <<muVars, svcVars>>

\* case text, ok := <-textIn with ok: the token is buffered; a sentence end
\* or a long buffer is submitted
TTSSendText(wok) ==
    /\ ttsSendPc = "select"
    /\ CanRecv(llmOut)
    /\ WriteOutcome(wok, ttsConnClosed)
    /\ llmOut' = Recv(llmOut)
    /\ LET currentText == textBuffer \o Head(llmOut.buf)
       IN  IF EndsSentence(currentText) \/ Len(currentText) > maxBufferLen
             THEN /\ sendBuffer(currentText, waitingForDone, wok)
                  /\ noteSubmission(currentText, waitingForDone, wok,
                                    IF EndsSentence(currentText)
                                      THEN "sentence" ELSE "long")
                  /\ ttsSendPc' =
                       IF sendBufferOk(currentText, waitingForDone, wok)
                         THEN "check" ELSE "done"
             ELSE /\ textBuffer' = currentText
                  /\ ttsSendPc' = "check"
                  /\ UNCHANGED <<hasSentText, waitingForDone, ttsConnFailed,
                                 textSentChan, submitted>>
    /\ UNCHANGED <<audioChan, ttsRVars, ttsConnClosed, ttsDoneChan>>
    /\ UNCHANGED <<mainVars, logVars, sttVars, sttAVars, llmVars, ttsVars,
                   egrVars, audioIn, sttOut, ttsOut>>
    /\ UNCHANGED <<muVars, svcVars>>

\* case <-ctx.Done(), and case text, ok := <-textIn with !ok: the buffer is
\* flushed and the sender exits
TTSSendFlush(wok) ==
    /\ ttsSendPc = "select"
    /\ ctxDone \/ IsDrained(llmOut)
    /\ WriteOutcome(wok, ttsConnClosed)
    /\ sendBuffer(textBuffer, waitingForDone, wok)
    /\ noteSubmission(textBuffer, waitingForDone, wok,
                      IF IsDrained(llmOut) THEN "closed" ELSE "ctx")
    /\ ttsSendPc' = "done"
    /\ UNCHANGED <<audioChan, ttsRVars, ttsConnClosed, ttsDoneChan>>
    /\ UNCHANGED <<mainVars, logVars, sttVars, sttAVars, llmVars, ttsVars,
                   egrVars, chanVars>>
    /\ UNCHANGED <<muVars, svcVars>>

\* case <-flushTicker.C: a non-empty buffer is submitted
TTSSendTick(wok) ==
    /\ ttsSendPc = "select"
    /\ WriteOutcome(wok, ttsConnClosed)
    /\ IF Len(textBuffer) > 0
         THEN /\ sendBuffer(textBuffer, waitingForDone, wok)
              /\ noteSubmission(textBuffer, waitingForDone, wok, "tick")
              /\ ttsSendPc' = IF sendBufferOk(textBuffer, waitingForDone, wok)
                                THEN "check" ELSE "done"
         ELSE /\ ttsSendPc' = "check"
              /\ UNCHANGED <<textBuffer, hasSentText, waitingForDone,
                             ttsConnFailed, textSentChan, submitted>>
    /\ UNCHANGED <<audioChan, ttsRVars, ttsConnClosed, ttsDoneChan>>
    /\ UNCHANGED <<mainVars, logVars, sttVars, sttAVars, llmVars, ttsVars,
                   egrVars, chanVars>>
    /\ UNCHANGED <<muVars, svcVars>>

\* the head of the receiver's loop and its select: exit on a failed
\* connection or a cancelled context, note a submission, wait while no audio
\* is expected, else enter ReadMessage (5 s deadline)
TTSRecvSelect ==
    /\ ttsRecvPc = "loop"
    /\ IF ttsConnFailed
         THEN ttsRecvPc' = "exit" /\ UNCHANGED <<expectingAudio, textSentChan>>
         ELSE \/ /\ ctxDone
                 /\ ttsRecvPc' = "exit"
                 /\ UNCHANGED <<expectingAudio, textSentChan>>
              \/ /\ textSentChan > 0
                 /\ textSentChan' = textSentChan - 1
                 /\ expectingAudio' = TRUE
                 /\ ttsRecvPc' = "loop"
              \/ /\ ~ctxDone /\ textSentChan = 0
                 /\ ttsRecvPc' = IF expectingAudio THEN "reading" ELSE "loop"
                 /\ UNCHANGED <<expectingAudio, textSentChan>>
    /\ UNCHANGED <<audioChan, ttsSVars, consecutiveErrors, errorRun, nChunks,
                   nDones, nErrs,
                   ttsConnFailed, ttsConnClosed, ttsDoneChan>>
    /\ UNCHANGED <<mainVars, logVars, sttVars, sttAVars, llmVars, ttsVars,
                   egrVars, chanVars>>
    /\ UNCHANGED <<muVars, svcVars>>

\* ReadMessage returns.  kind is what happened on the provider socket: an
\* audio chunk, a done message, an error message, another message (unknown
\* type, unparsable, undecodable or empty chunk), a read timeout, a close,
\* another read error, a panic naming a dead connection, another panic.
TTSReadKinds == {"chunk", "done", "error", "other", "timeout", "close",
                 "neterr", "panicDead", "panic"}

\* the submissions the provider has not yet answered; it answers each one
\* with audio chunks followed by a done message, or with an error message
Outstanding == Len(submitted) - nDones - nErrs

\* TTSRecvRead enqueueing a chunk whether or not audioChan is full
TTSRecvRead_NoDrop(kind) ==
    /\ ttsRecvPc = "reading"
    /\ kind \in env.tts
    /\ kind \in {"chunk", "done", "error"} => Outstanding > 0
    /\ kind = "chunk" => nChunks < env.chunks
    /\ kind = "done" => nDones < env.dones
    /\ kind = "error" => nErrs < env.errs
    /\ LET errs == CASE kind = "neterr" -> consecutiveErrors + 1
                     [] kind = "panic" -> consecutiveErrors + 2
                     [] kind = "panicDead" -> maxConsecutiveErrors + 1
                     [] OTHER -> 0
           fails == kind \in {"close", "panicDead"}
                    \/ errs >= maxConsecutiveErrors
       IN  /\ consecutiveErrors' = IF kind = "close" THEN consecutiveErrors
                                   ELSE errs
           /\ ttsConnFailed' = (ttsConnFailed \/ fails)
           /\ ttsRecvPc' = IF fails THEN "exit" ELSE "loop"
    /\ errorRun' = IF kind \in {"neterr", "panic", "panicDead"}
                     THEN errorRun + 1
                     ELSE IF kind = "close" THEN errorRun ELSE 0
    /\ nChunks' = IF kind = "chunk" THEN nChunks + 1 ELSE nChunks
    /\ nDones' = IF kind = "done" THEN nDones + 1 ELSE nDones
    /\ nErrs' = IF kind = "error" THEN nErrs + 1 ELSE nErrs
    /\ audioChan' = IF kind = "chunk"
                      THEN Send(audioChan, nChunks + 1) ELSE audioChan
    /\ ttsDoneChan' = IF kind = "done" /\ ttsDoneChan < CapSignal
                        THEN ttsDoneChan + 1 ELSE ttsDoneChan
    /\ expectingAudio' = IF kind = "done" THEN FALSE ELSE expectingAudio
    /\ UNCHANGED <<ttsSVars, ttsConnClosed, textSentChan>>
    /\ UNCHANGED <<mainVars, logVars, sttVars, sttAVars, llmVars, ttsVars,
                   egrVars, chanVars>>
    /\ UNCHANGED <<muVars, svcVars>>

TTSRecvRead(kind) ==
    /\ ttsRecvPc = "reading"
    /\ kind \in env.tts
    /\ kind \in {"chunk", "done", "error"} => Outstanding > 0
    /\ kind = "chunk" => nChunks < env.chunks
    /\ kind = "done" => nDones < env.dones
    /\ kind = "error" => nErrs < env.errs
    /\ LET errs == CASE kind = "neterr" -> consecutiveErrors + 1
                     [] kind = "panic" -> consecutiveErrors + 2
                     [] kind = "panicDead" -> maxConsecutiveErrors + 1
                     [] OTHER -> 0
           fails == kind \in {"close", "panicDead"}
                    \/ errs >= maxConsecutiveErrors
       IN  /\ consecutiveErrors' = IF kind = "close" THEN consecutiveErrors
                                   ELSE errs
           /\ ttsConnFailed' = (ttsConnFailed \/ fails)
           /\ ttsRecvPc' = IF fails THEN "exit" ELSE "loop"
    /\ errorRun' = IF kind \in {"neterr", "panic", "panicDead"}
                     THEN errorRun + 1
                     ELSE IF kind = "close" THEN errorRun ELSE 0
    /\ nChunks' = IF kind = "chunk" THEN nChunks + 1 ELSE nChunks
    /\ nDones' = IF kind = "done" THEN nDones + 1 ELSE nDones
    /\ nErrs' = IF kind = "error" THEN nErrs + 1 ELSE nErrs
    /\ audioChan' = IF kind = "chunk" /\ CanSend(audioChan, CapAudioChan)
                      THEN Send(audioChan, nChunks + 1) ELSE audioChan
    /\ ttsDoneChan' = IF kind = "done" /\ ttsDoneChan < CapSignal
                        THEN ttsDoneChan + 1 ELSE ttsDoneChan
    /\ expectingAudio' = IF kind = "done" THEN FALSE ELSE expectingAudio
    /\ UNCHANGED <<ttsSVars, ttsConnClosed, textSentChan>>
    /\ UNCHANGED <<mainVars, logVars, sttVars, sttAVars, llmVars, ttsVars,
                   egrVars, chanVars>>
    /\ UNCHANGED <<muVars, svcVars>>

\* the receiver's defers: conn.Close(), then audioChan is closed unless a
\* receive on it succeeds, which takes a buffered chunk instead
TTSRecvExit ==
    /\ ttsRecvPc = "exit"
    /\ ttsConnClosed' = TRUE
    /\ audioChan' = IF CanRecv(audioChan) THEN Recv(audioChan)
                    ELSE Close(audioChan)
    /\ ttsRecvPc' = "done"
    /\ UNCHANGED <<ttsSVars, expectingAudio, consecutiveErrors, errorRun,
                   nChunks, nDones,
                   nErrs,
                   ttsConnFailed, textSentChan, ttsDoneChan>>
    /\ UNCHANGED <<mainVars, logVars, sttVars, sttAVars, llmVars, ttsVars,
                   egrVars, chanVars>>
    /\ UNCHANGED <<muVars, svcVars>>

(***************************************************************************)
(* Session.sendEvent (pipeline.go:494-507) step by step: the only place    *)
(* that writes to the client socket.  Which event a task sends, and when,  *)
(* is left open here; the pipeline's own steps above take a whole call of  *)
(* sendEvent as one step.                                                  *)
(***************************************************************************)

\* the event a task sends: ready (pipeline.go:146), stt_output (307),
\* agent_chunk (416), error (453), tts_chunk (487)
TaskEvent(t) ==
    CASE t = "main" -> "ready"
      [] t = "stt" -> "stt_output"
      [] t = "llm" -> "agent_chunk"
      [] t = "tts" -> "error"
      [] t = "egress" -> "tts_chunk"

WritesBy(t) == Len(SelectSeq(events, LAMBDA e : e.type = TaskEvent(t)))

\* a task calls sendEvent
sendEventCall(t) ==
    /\ sendEventPc[t] = "idle"
    /\ WritesBy(t) < env.writes
    /\ sendEventPc' = [sendEventPc EXCEPT ![t] = "lock"]
    /\ UNCHANGED <<mu, mainVars, logVars, sttVars, sttAVars, llmVars, ttsVars,
                   ttsAVars, egrVars, chanVars,
                   svcVars>>

\* sendEventLock acquiring the mutex whether or not it is free
sendEventLock_NoWait(t) ==
    /\ sendEventPc[t] = "lock"
    /\ mu' = t
    /\ sendEventPc' = [sendEventPc EXCEPT ![t] = "write"]
    /\ UNCHANGED <<mainVars, logVars, sttVars, sttAVars, llmVars, ttsVars,
                   ttsAVars, egrVars, chanVars,
                   svcVars>>

\* pipeline.go:495: s.mu.Lock() returns once the mutex is free
sendEventLock(t) ==
    /\ sendEventPc[t] = "lock"
    /\ mu = "free"
    /\ mu' = t
    /\ sendEventPc' = [sendEventPc EXCEPT ![t] = "write"]
    /\ UNCHANGED <<mainVars, logVars, sttVars, sttAVars, llmVars, ttsVars,
                   ttsAVars, egrVars, chanVars,
                   svcVars>>

\* pipeline.go:504: s.conn.WriteJSON(event); an error is only logged
sendEventWrite(t) ==
    /\ sendEventPc[t] = "write"
    /\ sendEvent(TaskEvent(t), 0, <<>>)
    /\ sendEventPc' = [sendEventPc EXCEPT ![t] = "unlock"]
    /\ UNCHANGED <<mu, persisted, mainVars, sttVars, sttAVars, llmVars,
                   ttsVars, ttsAVars, egrVars, chanVars,
                   svcVars>>

\* pipeline.go:496: the deferred s.mu.Unlock()
sendEventUnlock(t) ==
    /\ sendEventPc[t] = "unlock"
    /\ mu' = "free"
    /\ sendEventPc' = [sendEventPc EXCEPT ![t] = "idle"]
    /\ UNCHANGED <<mainVars, logVars, sttVars, sttAVars, llmVars, ttsVars,
                   ttsAVars, egrVars, chanVars,
                   svcVars>>

(***************************************************************************)
(* llm.Client.Stream: the choice of the provider.  The source holds two    *)
(* definitions of the method; a build runs one of them.                    *)
(***************************************************************************)
\* strings.HasPrefix
HasPrefix(s, prefix) ==
    /\ Len(s) >= Len(prefix)
    /\ SubSeq(s, 1, Len(prefix)) = prefix

PrefixClaude    == <<"c", "l", "a", "u", "d", "e">>
PrefixAnthropic == <<"a", "n", "t", "h", "r", "o", "p", "i", "c">>
PrefixGpt       == <<"g", "p", "t">>
PrefixO1        == <<"o", "1">>

\* the default models of the two providers
DefaultOpenAI ==
    <<"g", "p", "t", "-", "4", "o", "-", "m", "i", "n", "i">>
DefaultAnthropic ==
    <<"c", "l", "a", "u", "d", "e", "-", "3", "-", "h", "a", "i", "k", "u",
      "-", "2", "0", "2", "4", "0", "3", "0", "7">>

\* the model names an agent may be configured with: each prefix alone and
\* with a suffix, proper prefixes of the prefixes, other names, the empty name
ModelNames ==
    { PrefixClaude, PrefixClaude \o <<"-", "3">>,
      PrefixAnthropic, PrefixAnthropic \o <<".", "x">>,
      PrefixGpt, PrefixGpt \o <<"-", "4">>,
      PrefixO1, PrefixO1 \o <<"-", "m">>,
      DefaultOpenAI, DefaultAnthropic,
      <<>>, <<"c", "l", "a", "u">>, <<"g", "p">>, <<"o">>,
      <<"C", "l", "a", "u", "d", "e">>, <<"x">> \o PrefixGpt,
      <<"l", "l", "a", "m", "a">> }

\* an API key of the configuration: empty when not configured
Keys == {"", "sk"}

NoResult ==
    [def |-> 0, provider |-> "none", model |-> <<>>, requests |-> 0,
     err |-> FALSE]

SelIdle ==
    /\ model = <<>> /\ anthropicKey = "" /\ openAIKey = "" /\ httpOk = TRUE
    /\ streamResult = NoResult

\* streamAnthropic / streamOpenAI: an error before any request without the
\* key; otherwise one POST, and an error when the status is not 200
streamProvider(def, provider, key, m) ==
    IF key = ""
    THEN [def |-> def, provider |-> provider, model |-> m, requests |-> 0,
          err |-> TRUE]
    ELSE [def |-> def, provider |-> provider, model |-> m, requests |-> 1,
          err |-> ~httpOk]
streamAnthropic(def, m) == streamProvider(def, "anthropic", anthropicKey, m)
streamOpenAI(def, m) == streamProvider(def, "openai", openAIKey, m)

NoKeyConfigured(def) ==
    [def |-> def, provider |-> "none", model |-> <<>>, requests |-> 0,
     err |-> TRUE]

IsAnthropicName(m) ==
    HasPrefix(m, PrefixClaude) \/ HasPrefix(m, PrefixAnthropic)
IsOpenAIName(m) == HasPrefix(m, PrefixGpt) \/ HasPrefix(m, PrefixO1)

\* client.go:29-74: the prefix chooses the provider when its key is
\* configured, the other provider with its default model otherwise
StreamResult ==
    IF IsAnthropicName(model) /\ anthropicKey # ""
    THEN streamAnthropic(1, model)
    ELSE IF IsAnthropicName(model) /\ openAIKey # ""
    THEN streamOpenAI(1, DefaultOpenAI)
    ELSE IF ~IsAnthropicName(model) /\ IsOpenAIName(model) /\ openAIKey # ""
    THEN streamOpenAI(1, model)
    ELSE IF ~IsAnthropicName(model) /\ IsOpenAIName(model)
            /\ anthropicKey # ""
    THEN streamAnthropic(1, DefaultAnthropic)
    ELSE IF openAIKey # "" THEN streamOpenAI(1, DefaultOpenAI)
    ELSE IF anthropicKey # "" THEN streamAnthropic(1, DefaultAnthropic)
    ELSE NoKeyConfigured(1)

\* client.go:136-168: the prefix alone chooses the provider; the keys are
\* looked at only for a name without a known prefix
StreamResult2 ==
    IF IsAnthropicName(model) THEN streamAnthropic(2, model)
    ELSE IF IsOpenAIName(model)
    THEN streamOpenAI(2, model)
    ELSE IF anthropicKey # "" THEN streamAnthropic(2, DefaultAnthropic)
    ELSE IF openAIKey # "" THEN streamOpenAI(2, DefaultOpenAI)
    ELSE NoKeyConfigured(2)

Stream ==
    /\ streamResult = NoResult
    /\ streamResult' = StreamResult
    /\ UNCHANGED <<model, anthropicKey, openAIKey, httpOk, pipeVars, convVars,
                   repoVars, offVars, handshake>>

Stream2 ==
    /\ streamResult = NoResult
    /\ streamResult' = StreamResult2
    /\ UNCHANGED <<model, anthropicKey, openAIKey, httpOk, pipeVars, convVars,
                   repoVars, offVars, handshake>>

(***************************************************************************)
(* ConversationService.Create and End (services.go:430-493).  Time is      *)
(* counted in ticks of the wall clock, TicksPerSecond to the second.       *)
(***************************************************************************)
TicksPerSecond == 4
MaxClock == 14
MaxStart == 5
MaxEnds == 2

\* a *time.Time: nil, or a pointer to an instant
Nil == <<>>
Ptr(t) == <<t>>

NoConversation ==
    [created |-> FALSE, StartedAt |-> 0, EndedAt |-> Nil, DurationSecs |-> 0]

ConvIdle == now = 0 /\ conversation = NoConversation /\ endCount = 0


\* int(d.Seconds()) rounding to the nearest second
IntSeconds_Round(d) == (2 * d + TicksPerSecond) \div (2 * TicksPerSecond)

\* int(d.Seconds()): Seconds() is the duration as a floating-point number of
\* seconds, and the conversion to int drops the fraction (towards zero)
IntSeconds(d) ==
    IF d >= 0 THEN d \div TicksPerSecond ELSE -((-d) \div TicksPerSecond)

\* the wall clock advances
ClockTick ==
    /\ now < MaxClock
    /\ now' = now + 1
    /\ UNCHANGED <<conversation, endCount, selVars, pipeVars, repoVars, offVars, handshake>>

\* services.go:430-452: Create stores a row with started_at = time.Now()
ConversationCreate ==
    /\ ~conversation.created
    /\ conversation' = [created |-> TRUE, StartedAt |-> now, EndedAt |-> Nil,
                        DurationSecs |-> 0]
    /\ UNCHANGED <<now, endCount, selVars, pipeVars, repoVars, offVars, handshake>>

\* services.go:467-493: End reads the row and writes ended_at = now and the
\* duration, whatever the row holds
ConversationEnd ==
    /\ conversation.created
    /\ endCount < MaxEnds
    /\ conversation' =
          [conversation EXCEPT
              !.EndedAt = Ptr(now),
              !.DurationSecs = IntSeconds(now - conversation.StartedAt)]
    /\ endCount' = endCount + 1
    /\ UNCHANGED <<now, selVars, pipeVars, repoVars, offVars, handshake>>

(***************************************************************************)
(* The statements of runSTT (pipeline.go:309-316) and of runLLM            *)
(* (pipeline.go:435-442; runLangChain: 365-372) that persist a message,    *)
(* step by step: each stage reads the clock into its local elapsed and     *)
(* then calls ConversationService.AddMessage (services.go:495-506), and    *)
(* the two stages run in parallel.  The pipeline's own steps above take    *)
(* the two statements as one step.                                         *)
(***************************************************************************)
OffsetTurns == 2

PersistTasks == {"stt", "llm"}

RoleOf(t) == IF t = "stt" THEN "user" ELSE "assistant"

NoPersist == [t \in PersistTasks |-> [pc |-> "idle", turn |-> 0, elapsed |-> 0]]

\* d.Milliseconds(): the duration, counted in ticks, as a whole number of
\* milliseconds
Milliseconds(d) == (d * 1000) \div TicksPerSecond

\* the final transcripts that runSTT has queued on sttOut: it queues a
\* transcript after its AddMessage has returned (pipeline.go:309-320)
Queued ==
    IF persistTask["stt"].pc = "idle"
      THEN persistTask["stt"].turn ELSE persistTask["stt"].turn - 1

\* pipeline.go:299-307: runSTT takes the next final transcript and has
\* written its stt_output event
STTFinal ==
    /\ persistTask["stt"].pc = "idle"
    /\ persistTask["stt"].turn < OffsetTurns
    /\ persistTask' = [persistTask EXCEPT !["stt"].turn = @ + 1,
                                          !["stt"].pc = "elapsed"]
    /\ UNCHANGED <<startTime, messageRows, pipeVars, selVars, convVars,
                   repoVars, handshake>>

\* pipeline.go:385-426: runLLM takes the next transcript queued on sttOut,
\* streams the reply and has written its agent_end event
LLMReplyEnd ==
    /\ persistTask["llm"].pc = "idle"
    /\ persistTask["llm"].turn < Queued
    /\ persistTask' = [persistTask EXCEPT !["llm"].turn = @ + 1,
                                          !["llm"].pc = "elapsed"]
    /\ UNCHANGED <<startTime, messageRows, pipeVars, selVars, convVars,
                   repoVars, handshake>>

\* pipeline.go:309 / 435:
\* elapsed := int(time.Since(session.startTime).Milliseconds())
PersistElapsed(t) ==
    /\ persistTask[t].pc = "elapsed"
    /\ persistTask' = [persistTask EXCEPT
                          ![t].elapsed = Milliseconds(now - startTime),
                          ![t].pc = "insert"]
    /\ UNCHANGED <<startTime, messageRows, pipeVars, selVars, convVars,
                   repoVars, handshake>>

\* pipeline.go:310-316 / 436-442 and services.go:495-506: AddMessage with
\* elapsed as the start and the end offset; the row is inserted
PersistAddMessage(t) ==
    /\ persistTask[t].pc = "insert"
    /\ messageRows' =
          Append(messageRows,
                 [Role |-> RoleOf(t), turn |-> persistTask[t].turn,
                  StartTime |-> persistTask[t].elapsed,
                  EndTime |-> persistTask[t].elapsed])
    /\ persistTask' = [persistTask EXCEPT ![t].pc = "idle"]
    /\ UNCHANGED <<startTime, pipeVars, selVars, convVars, repoVars,
                   handshake>>

(***************************************************************************)
(* VoiceHandler.HandleWebSocket after the upgrade (voice_handler.go:78-98) *)
(* with NewSession (pipeline.go:95-116) and the ready event of             *)
(* HandleSession (pipeline.go:145-151): the session ids.                   *)
(***************************************************************************)
\* the values uuid.New().String() may return
MaxUUIDs == 8
UUIDs == 1..MaxUUIDs

\* the empty string
NoID == 0

NoHandshake ==
    [pc |-> "start", sessionID |-> NoID,
     conversation |-> [created |-> FALSE, SessionID |-> NoID],
     session |-> [ID |-> NoID],
     ready |-> [sent |-> FALSE, session_id |-> NoID]]

\* nothing is being persisted and no connection is being set up
OffIdle ==
    /\ startTime = 0 /\ persistTask = NoPersist /\ messageRows = <<>>
    /\ handshake = NoHandshake

\* voice_handler.go:79: sessionID := uuid.New().String()
HandlerSessionID ==
    /\ handshake.pc = "start"
    /\ \E id \in UUIDs :
          handshake' = [handshake EXCEPT !.sessionID = id, !.pc = "create"]
    /\ UNCHANGED <<pipeVars, selVars, convVars, repoVars, offVars>>

\* voice_handler.go:82-87 and services.go:431-452: the Conversation is
\* created with the handler's sessionID; when that fails the socket is
\* closed and the handler returns
HandlerCreate(ok) ==
    /\ handshake.pc = "create"
    /\ handshake' =
          IF ok
            THEN [handshake EXCEPT
                    !.conversation = [created |-> TRUE,
                                      SessionID |-> handshake.sessionID],
                    !.pc = "newSession"]
            ELSE [handshake EXCEPT !.pc = "returned"]
    /\ UNCHANGED <<pipeVars, selVars, convVars, repoVars, offVars>>

\* voice_handler.go:97 and pipeline.go:95-116: NewSession makes its own
\* sessionID := uuid.New().String() and stores it in Session.ID
HandlerNewSession ==
    /\ handshake.pc = "newSession"
    /\ \E id \in UUIDs :
          handshake' = [handshake EXCEPT !.session = [ID |-> id],
                                         !.pc = "handle"]
    /\ UNCHANGED <<pipeVars, selVars, convVars, repoVars, offVars>>

\* voice_handler.go:98 and pipeline.go:145-151: HandleSession sends ready
\* with "session_id": session.ID
HandlerReady ==
    /\ handshake.pc = "handle"
    /\ handshake' =
          [handshake EXCEPT
              !.ready = [sent |-> TRUE, session_id |-> handshake.session.ID],
              !.pc = "running"]
    /\ UNCHANGED <<pipeVars, selVars, convVars, repoVars, offVars>>

(***************************************************************************)
(* The repositories and the BeforeDelete hooks of the models: soft delete  *)
(* and its cascade.  A row keeps its place in its table; DeletedAt says    *)
(* whether deleted_at is set.                                              *)
(***************************************************************************)
Users == {"u1", "u2"}
Agents == {"a1", "a2"}
Conversations == {"c1", "c2"}
Messages == {"m1", "m2"}
APIKeys == {"k1", "k2"}

\* uuid.Nil, the ID of a model value that was not loaded
NilID == "nil"

EmptyDB ==
    [users |-> <<>>, agents |-> <<>>, conversations |-> <<>>,
     messages |-> <<>>, api_keys |-> <<>>]

NoCall == [repo |-> "none", id |-> NilID, err |-> FALSE]

RepoIdle == db = EmptyDB /\ lastCall = NoCall

SvcIdle == SelIdle /\ ConvIdle /\ RepoIdle /\ OffIdle

\* a query under the default scope: deleted_at IS NULL is added
Scoped(table) == {r \in DOMAIN table : ~table[r].DeletedAt}

\* db.First(&row, "id = ?", id) finds the row
Found(table, id) == id \in Scoped(table)

\* tx.Where(field = id).Find(&rows)
FindBy(table, field, id) == {r \in Scoped(table) : table[r][field] = id}

\* the UPDATE ... SET deleted_at = now WHERE id IN ids AND deleted_at IS NULL
\* that Delete issues for a model with a DeletedAt field
SoftDelete(table, ids) ==
    [r \in DOMAIN table |->
        IF r \in ids THEN [table[r] EXCEPT !.DeletedAt = TRUE] ELSE table[r]]

\* Conversation.BeforeDelete (conversation.go:31-45), then the row itself:
\* tx.Delete(&conv) for a loaded conversation
DeleteConversation(d, id) ==
    LET d1 == [d EXCEPT !.messages =
                  SoftDelete(@, FindBy(d.messages, "conversation_id", id))]
    IN  [d1 EXCEPT !.conversations = SoftDelete(@, {id} \cap Scoped(@))]

RECURSIVE DeleteConversations(_, _)
DeleteConversations(d, ids) ==
    IF ids = {} THEN d
    ELSE LET id == CHOOSE x \in ids : TRUE
         IN  DeleteConversations(DeleteConversation(d, id), ids \ {id})

\* Agent.BeforeDelete leaving the API keys alone
AgentBeforeDelete_NoKeys(d, id) ==
    DeleteConversations(d, FindBy(d.conversations, "agent_id", id))

\* Agent.BeforeDelete (part_009:41-63): the agent's conversations one by
\* one, then its API keys one by one
AgentBeforeDelete(d, id) ==
    LET d1 == DeleteConversations(d, FindBy(d.conversations, "agent_id", id))
    IN  [d1 EXCEPT !.api_keys =
            SoftDelete(@, FindBy(d1.api_keys, "agent_id", id))]

\* tx.Delete(&agent) for a loaded agent: the hook, then the row
DeleteAgent(d, id) ==
    LET d1 == AgentBeforeDelete(d, id)
    IN  [d1 EXCEPT !.agents = SoftDelete(@, {id} \cap Scoped(@))]

RECURSIVE DeleteAgents(_, _)
DeleteAgents(d, ids) ==
    IF ids = {} THEN d
    ELSE LET id == CHOOSE x \in ids : TRUE
         IN  DeleteAgents(DeleteAgent(d, id), ids \ {id})

\* User.BeforeDelete (models.go:212-225): the agents whose user_id is the ID
\* of the value the hook is called on
UserBeforeDelete(d, id) == DeleteAgents(d, FindBy(d.agents, "user_id", id))

\* part_015:345-347: r.db.Delete(&models.User{}, "id = ?", id).  The hook is
\* called on the value passed to Delete, a new User whose ID is uuid.Nil;
\* the id is only a condition of the UPDATE
UserRepositoryDelete(id) ==
    /\ db' = LET d1 == UserBeforeDelete(db, NilID)
             IN  [d1 EXCEPT !.users = SoftDelete(@, {id} \cap Scoped(@))]
    /\ lastCall' = [repo |-> "user", id |-> id, err |-> FALSE]
    /\ UNCHANGED <<selVars, convVars, pipeVars, offVars, handshake>>

\* part_015:429-436: the agent is loaded, then deleted
AgentRepositoryDelete(id) ==
    /\ IF Found(db.agents, id)
         THEN /\ db' = DeleteAgent(db, id)
              /\ lastCall' = [repo |-> "agent", id |-> id, err |-> FALSE]
         ELSE /\ db' = db
              /\ lastCall' = [repo |-> "agent", id |-> id, err |-> TRUE]
    /\ UNCHANGED <<selVars, convVars, pipeVars, offVars, handshake>>

\* part_015:528-535: the conversation is loaded, then deleted
ConversationRepositoryDelete(id) ==
    /\ IF Found(db.conversations, id)
         THEN /\ db' = DeleteConversation(db, id)
              /\ lastCall' = [repo |-> "conversation", id |-> id, err |-> FALSE]
         ELSE /\ db' = db
              /\ lastCall' = [repo |-> "conversation", id |-> id, err |-> TRUE]
    /\ UNCHANGED <<selVars, convVars, pipeVars, offVars, handshake>>

(***************************************************************************)
(* The specification.                                                      *)
(***************************************************************************)
MainStep ==
    \/ MainInit \/ MainReady \/ MainSpawn \/ IngressSelect \/ IngressPush
    \/ IngressClose \/ MainWait \/ MainEnd \/ MainSessionEnd \/ MainCancel
    \/ MainCloseConn

STTStep == STTError \/ STTLoop \/ STTEmit \/ STTPersist \/ STTPush \/ STTClose

STTAdapterStep ==
    \/ \E wok \in BOOLEAN : STTSender(wok)
    \/ STTRecvSelect \/ STTRecvPush \/ STTRecvExit

LLMStep ==
    LLMWait \/ LLMError \/ LLMChunkEvent \/ LLMPush \/ LLMPersist \/ LLMClose

TTSStep == TTSError \/ TTSLoop \/ TTSPush \/ TTSClose

TTSSenderStep ==
    \/ TTSSendCheck
    \/ \E wok \in BOOLEAN :
          \/ TTSSendDone(wok) \/ TTSSendText(wok)
          \/ TTSSendFlush(wok) \/ TTSSendTick(wok)

TTSReceiverStep == TTSRecvSelect \/ TTSRecvExit

EgressStep == EgressLoop \/ EgressEmit

\* the steps whose outcome the client or a provider decides
EnvStep ==
    \/ \E kind \in ReadKinds : IngressRead(kind)
    \/ \E ok \in BOOLEAN : STTInit(ok)
    \/ \E kind \in STTReadKinds : STTRecvRead(kind)
    \/ \E ok \in BOOLEAN : LLMOpen(ok)
    \/ LLMDelta
    \/ LLMAgentEnd
    \/ \E ok \in BOOLEAN : TTSInit(ok)
    \/ \E kind \in TTSReadKinds : TTSRecvRead(kind)

Next ==
    \/ MainStep \/ STTStep \/ STTAdapterStep \/ LLMStep \/ TTSStep
    \/ TTSSenderStep \/ TTSReceiverStep \/ EgressStep \/ EnvStep

(***************************************************************************)
(* Specifications.  Both run the same program; they differ in what the     *)
(* client and the providers are allowed to do, which Init fixes in env.    *)
(***************************************************************************)

\* Spec: one audio frame, one partial and one final transcript, one token,
\* one audio chunk and one done message; every kind of client read; provider streams that may fail
MaxFrames == 1
MaxFinals == 1
MaxTokens == 1
MaxChunks == 1
MaxDones == 1
MaxPartials == 1

LifeEnv ==
    [frames |-> MaxFrames, finals |-> MaxFinals, partials |-> MaxPartials,
     tokens |-> MaxTokens, later |-> MaxTokens, chunks |-> MaxChunks,
     dones |-> MaxDones,
     errs |-> 0, writes |-> 0, modes |-> {FALSE}, create |-> {TRUE}, wfail |-> FALSE,
     client |-> ReadKinds, stt |-> STTReadKinds,
     tts |-> {"chunk", "done", "close", "timeout"}]

Init == InitSession /\ SvcIdle /\ env = LifeEnv

Spec == Init /\ [][Next]_vars

\* SpecTurn: two turns of up to one token each.  The client sends control
\* messages only and the TTS provider returns no audio, so the steps that
\* move audio (IngressPush, TTSPush, EgressEmit, TTSSendDone) are left out of
\* the next-state relation: nothing enables them.
TurnFinals == 2
TurnTokens == 1

TurnEnv ==
    [frames |-> 0, finals |-> TurnFinals, partials |-> 0,
     tokens |-> TurnTokens, later |-> TurnTokens, chunks |-> 0, dones |-> 0,
     errs |-> 0, writes |-> 0, modes |-> {FALSE}, create |-> {TRUE}, wfail |-> FALSE,
     client |-> {"end", "text", "error"}, stt |-> STTReadKinds,
     tts |-> {"close", "timeout"}]

InitTurn == InitSession /\ SvcIdle /\ env = TurnEnv

NextTurn ==
    \/ MainInit \/ MainReady \/ MainSpawn \/ IngressSelect
    \/ IngressClose \/ MainWait \/ MainEnd \/ MainSessionEnd \/ MainCancel
    \/ MainCloseConn
    \/ STTStep \/ STTAdapterStep \/ LLMStep
    \/ TTSError \/ TTSLoop \/ TTSClose
    \/ TTSSendCheck
    \/ \E wok \in BOOLEAN :
          TTSSendText(wok) \/ TTSSendFlush(wok) \/ TTSSendTick(wok)
    \/ TTSReceiverStep
    \/ EgressLoop
    \/ EnvStep

SpecTurn == InitTurn /\ [][NextTurn]_vars

\* SpecWrite: the five tasks of a session, each calling sendEvent up to
\* MaxWrites times, in every interleaving of the steps inside sendEvent
MaxWrites == 2

WriteEnv == [LifeEnv EXCEPT !.writes = MaxWrites]

InitWrite == InitSession /\ SvcIdle /\ env = WriteEnv

NextWrite ==
    \E t \in Tasks :
        \/ sendEventCall(t) \/ sendEventLock(t)
        \/ sendEventWrite(t) \/ sendEventUnlock(t)

SpecWrite == InitWrite /\ [][NextWrite]_vars

\* SpecTts: one turn of up to three tokens, whose submissions the TTS provider
\* answers with done messages or an error message and no audio, so the steps
\* that move audio (IngressPush, TTSPush, EgressEmit) are left out
TtsTokens == 3
TtsDones == 2
TtsErrs == 1

TtsEnv ==
    [frames |-> 0, finals |-> 1, partials |-> 0,
     tokens |-> TtsTokens, later |-> TtsTokens, chunks |-> 0,
     dones |-> TtsDones,
     errs |-> TtsErrs, writes |-> 0, modes |-> {FALSE}, create |-> {TRUE}, wfail |-> FALSE,
     client |-> {"end"}, stt |-> {"final", "termination"},
     tts |-> {"done", "error", "close", "timeout"}]

InitTts == InitSession /\ SvcIdle /\ env = TtsEnv

NextTts ==
    \/ MainInit \/ MainReady \/ MainSpawn \/ IngressSelect
    \/ IngressClose \/ MainWait \/ MainEnd \/ MainSessionEnd \/ MainCancel
    \/ MainCloseConn
    \/ STTStep \/ STTAdapterStep \/ LLMStep
    \/ TTSError \/ TTSLoop \/ TTSClose
    \/ TTSSenderStep \/ TTSReceiverStep
    \/ EgressLoop
    \/ EnvStep

SpecTts == InitTts /\ [][NextTts]_vars

\* SpecAudio: one turn of one token, whose submission the TTS provider
\* answers with up to two audio chunks and a done message; the client sends
\* no audio, so IngressPush is left out
AudioChunks == 2

AudioEnv ==
    [frames |-> 0, finals |-> 1, partials |-> 0,
     tokens |-> 1, later |-> 1, chunks |-> AudioChunks, dones |-> 1,
     errs |-> 0, writes |-> 0, modes |-> {FALSE}, create |-> {TRUE}, wfail |-> FALSE,
     client |-> {"end"}, stt |-> {"final", "termination"},
     tts |-> {"chunk", "done", "close", "timeout"}]

InitAudio == InitSession /\ SvcIdle /\ env = AudioEnv

NextAudio ==
    \/ MainInit \/ MainReady \/ MainSpawn \/ IngressSelect
    \/ IngressClose \/ MainWait \/ MainEnd \/ MainSessionEnd \/ MainCancel
    \/ MainCloseConn
    \/ STTStep \/ STTAdapterStep \/ LLMStep \/ TTSStep
    \/ TTSSenderStep \/ TTSReceiverStep \/ EgressStep
    \/ EnvStep

SpecAudio == InitAudio /\ [][NextAudio]_vars

\* SpecFallback: the tool-agent service is configured and CreateAgent may
\* fail; one turn of up to two tokens, no audio
FallbackTokens == 2

FallbackEnv ==
    [TurnEnv EXCEPT !.finals = 1, !.tokens = FallbackTokens,
                    !.modes = {TRUE}, !.create = {TRUE, FALSE}]

InitFallback == InitSession /\ SvcIdle /\ env = FallbackEnv

SpecFallback == InitFallback /\ [][NextTurn]_vars

\* SpecIo: the session of SpecTts on a network that may fail any write to a
\* provider socket (the write deadline passes, the connection is reset)
IoTokens == 2
IoDones == 1

IoEnv ==
    [TtsEnv EXCEPT !.tokens = IoTokens, !.dones = IoDones, !.errs = 0,
                   !.wfail = TRUE, !.tts = {"done", "close", "timeout"}]

InitIo == InitSession /\ SvcIdle /\ env = IoEnv

SpecIo == InitIo /\ [][NextTts]_vars

\* SpecFifo: the two turns of SpecTurn with a reply of up to two tokens to
\* the first and of up to one token to the second, a client that only ends
\* the session and an STT provider that sends final transcripts and
\* terminates
FifoTokens == 2
FifoLater == 1

FifoEnv ==
    [TurnEnv EXCEPT !.tokens = FifoTokens, !.later = FifoLater,
                    !.client = {"end"}, !.stt = {"final", "termination"}]

InitFifo == InitSession /\ SvcIdle /\ env = FifoEnv

SpecFifo == InitFifo /\ [][NextTurn]_vars

\* SpecRead: the session of SpecTts with a TTS provider socket whose reads
\* may fail in every way the receiver tells apart: a read error, a panic, a
\* panic naming a dead connection, a close; no audio and no error message
ReadTokens == 1
ReadDones == 1

ReadEnv ==
    [TtsEnv EXCEPT !.tokens = ReadTokens, !.dones = ReadDones, !.errs = 0,
                   !.tts = {"done", "other", "timeout", "close", "neterr",
                            "panic", "panicDead"}]

InitRead == InitSession /\ SvcIdle /\ env = ReadEnv

SpecRead == InitRead /\ [][NextTts]_vars

\* SpecOffset: a session started at any instant up to MaxStart; OffsetTurns
\* turns whose user and assistant messages the two stages persist while the
\* clock advances
InitOffset ==
    /\ InitSession /\ env = LifeEnv /\ SelIdle /\ RepoIdle
    /\ now \in 0..MaxStart
    /\ conversation = NoConversation /\ endCount = 0
    /\ startTime = now
    /\ persistTask = NoPersist
    /\ messageRows = <<>>
    /\ handshake = NoHandshake

NextOffset ==
    \/ ClockTick
    \/ STTFinal
    \/ LLMReplyEnd
    \/ \E t \in PersistTasks : PersistElapsed(t)
    \/ \E t \in PersistTasks : PersistAddMessage(t)

SpecOffset == InitOffset /\ [][NextOffset]_vars

\* SpecHandshake: one connection after the upgrade, with every pair of
\* values the two calls of uuid.New() may return
InitHandshake == InitSession /\ SvcIdle /\ env = LifeEnv

NextHandshake ==
    \/ HandlerSessionID
    \/ \E ok \in BOOLEAN : HandlerCreate(ok)
    \/ HandlerNewSession
    \/ HandlerReady

SpecHandshake == InitHandshake /\ [][NextHandshake]_vars

\* SpecSelect: one call of Stream for every model name, every combination of
\* keys and either answer of the provider
InitSelect ==
    /\ InitSession /\ env = LifeEnv /\ ConvIdle /\ RepoIdle /\ OffIdle
    /\ model \in ModelNames
    /\ anthropicKey \in Keys /\ openAIKey \in Keys
    /\ httpOk \in BOOLEAN
    /\ streamResult = NoResult

NextSelect ==
    \/ Stream
    \/ Stream2

SpecSelect == InitSelect /\ [][NextSelect]_vars

\* SpecEnd: a Conversation created at any instant up to MaxStart and ended
\* up to MaxEnds times at any later instants
InitEnd ==
    /\ InitSession /\ env = LifeEnv /\ SelIdle /\ RepoIdle /\ OffIdle
    /\ now \in 0..MaxStart
    /\ conversation = NoConversation
    /\ endCount = 0

NextEnd ==
    \/ ClockTick
    \/ ConversationCreate
    \/ ConversationEnd

SpecEnd == InitEnd /\ [][NextEnd]_vars

\* SpecDelete: two users, and two agents, conversations, messages and API
\* keys that belong to any of them; any sequence of Delete calls
InitDelete ==
    /\ InitSession /\ env = LifeEnv /\ SelIdle /\ ConvIdle /\ OffIdle
    /\ \E owner \in [Agents -> Users], agent \in [Conversations -> Agents],
          conv \in [Messages -> Conversations], keyAgent \in [APIKeys -> Agents] :
          db = [users |-> [u \in Users |-> [DeletedAt |-> FALSE]],
                agents |-> [a \in Agents |->
                              [user_id |-> owner[a], DeletedAt |-> FALSE]],
                conversations |-> [c \in Conversations |->
                              [agent_id |-> agent[c], DeletedAt |-> FALSE]],
                messages |-> [m \in Messages |->
                              [conversation_id |-> conv[m],
                               DeletedAt |-> FALSE]],
                api_keys |-> [k \in APIKeys |->
                              [agent_id |-> keyAgent[k],
                               user_id |-> owner[keyAgent[k]],
                               DeletedAt |-> FALSE]]]
    /\ lastCall = NoCall

NextDelete ==
    \/ \E id \in Users : UserRepositoryDelete(id)
    \/ \E id \in Agents : AgentRepositoryDelete(id)
    \/ \E id \in Conversations : ConversationRepositoryDelete(id)

SpecDelete == InitDelete /\ [][NextDelete]_vars

(***************************************************************************)
(* Properties.                                                             *)
(***************************************************************************)
EventsOf(type) == {i \in DOMAIN events : events[i].type = type}
EventsOfTurn(type, turn) ==
    {i \in DOMAIN events : events[i].type = type /\ events[i].turn = turn}

\* the steps the program takes by itself: everything but the reads and stream
\* results that the client or a provider decides
ProgramStep ==
    \/ MainStep \/ STTStep \/ STTAdapterStep \/ LLMStep \/ TTSStep
    \/ TTSSenderStep \/ TTSReceiverStep \/ EgressStep

\* the steps that need nobody's message: the program's own steps, the dial
\* and open calls (the dialer has a handshake timeout) and the Cartesia read
\* (it has a 5 s deadline)
UnpromptedStep ==
    \/ ProgramStep
    \/ \E ok \in BOOLEAN : STTInit(ok) \/ LLMOpen(ok) \/ TTSInit(ok)
    \/ \E kind \in TTSReadKinds : TTSRecvRead(kind)

\* readAudioFromClient has returned
IngressStopped ==
    mainPc \in {"closeAudio", "wait", "end", "sessionEnd", "cancel",
                "closeConn", "returned"}

SessionEndEmitted == EventsOf("session_end") # {}

\* C1: once the ingress reader has stopped, HandleSession returns whatever
\* the providers do, silence included.  Stated on finite runs: a state in
\* which the reader has stopped and nothing can happen unless the client or
\* a provider sends a message is a state in which HandleSession has
\* returned, with the stages joined, End called and session_end emitted.
C1_ReturnsAfterIngressStops ==
    (IngressStopped /\ ~ENABLED UnpromptedStep)
        => /\ mainPc = "returned"
           /\ StagesExited /\ endCalls >= 1 /\ SessionEndEmitted

\* C2: End is called at most once and session_end is emitted at most once;
\* session_end is emitted only after End, and End only after all four stage
\* tasks have exited.
C2_EndOnceAfterStages ==
    /\ endCalls <= 1
    /\ Cardinality(EventsOf("session_end")) <= 1
    /\ (SessionEndEmitted => endCalls = 1)
    /\ (endCalls >= 1 => StagesExited)

\* C2 witness: a session that was finalized and announced its end
C2_Witness ==
    /\ mainPc = "returned" /\ endCalls = 1 /\ SessionEndEmitted
    /\ EventsOf("stt_output") # {}

\* a stage has exited after reporting that its provider stream failed to
\* initialise
StageExitedWithError ==
    \E i \in EventsOf("error") :
        \/ events[i].text = <<"S", "T", "T">> /\ sttPc = "done"
        \/ events[i].text = <<"T", "T", "S">> /\ ttsPc = "done"

\* every step but a read of the client socket
NonClientStep ==
    \/ ProgramStep
    \/ \E ok \in BOOLEAN : STTInit(ok) \/ LLMOpen(ok) \/ TTSInit(ok)
    \/ \E kind \in STTReadKinds : STTRecvRead(kind)
    \/ LLMDelta \/ LLMAgentEnd
    \/ \E kind \in TTSReadKinds : TTSRecvRead(kind)

\* C3: when a stage exits with an error the session is cancelled and reaches
\* session_end without a further action of the client.  Stated on finite
\* runs: a state in which a stage has exited with an error and in which
\* nothing but a message of the client can happen is a state after
\* session_end.
C3_ErrorEndsSession ==
    (StageExitedWithError /\ ~ENABLED NonClientStep) => SessionEndEmitted

IngressBlocked == mainPc = "push" /\ ~CanSend(audioIn, CapAudioIn)
STTBlocked == sttPc = "push" /\ ~CanSend(sttOut, CapSttOut)
LLMBlocked == llmPc = "push" /\ ~CanSend(llmOut, CapLlmOut)
TTSBlocked == ttsPc = "push" /\ ~CanSend(ttsOut, CapTtsOut)

\* C4: a producer blocked on a full stage channel is eventually unblocked,
\* by its consumer or by the cancellation of the session context.  Stated on
\* finite runs: a state with a blocked producer is never a state in which no
\* step at all is possible any more.
C4_BlockedProducerUnblocked ==
    (IngressBlocked \/ STTBlocked \/ LLMBlocked \/ TTSBlocked)
        => ENABLED NextTurn

\* C5: teardown order: the context is cancelled, then audioIn is closed, then
\* all stages have exited, then the Conversation is finalized, then
\* session_end is emitted, then the client socket is closed; no step before
\* its predecessor.
C5_TeardownOrder ==
    /\ (audioIn.closed => ctxDone)
    /\ (StagesExited => audioIn.closed)
    /\ (endCalls >= 1 => StagesExited)
    /\ (SessionEndEmitted => endCalls >= 1)
    /\ (connClosed => SessionEndEmitted)

\* C6: at most one error event is emitted in a session
C6_SingleErrorEvent == Cardinality(EventsOf("error")) <= 1

AgentTypes == {"agent_chunk", "agent_end"}

\* C7: agent_end of turn N precedes stt_output of every later turn: no
\* stt_output of a later turn is emitted while the agent events of an
\* earlier turn are outstanding, i.e. no agent_chunk or agent_end of turn N
\* follows the stt_output of a turn after N.
C7_AgentEndBeforeNextOutput ==
    \A i, j \in DOMAIN events :
        (i < j /\ events[i].type = "stt_output" /\ events[j].type \in AgentTypes)
            => events[j].turn >= events[i].turn

\* C8: in every turn stt_output precedes every agent_chunk, and every
\* agent_chunk precedes the turn's agent_end
C8_TurnEventOrder ==
    \A j \in DOMAIN events :
        /\ events[j].type = "agent_chunk"
              => /\ \E i \in EventsOfTurn("stt_output", events[j].turn) : i < j
                 /\ \A i \in EventsOfTurn("agent_end", events[j].turn) : j < i

\* C8 witness: a turn with its stt_output, two agent_chunk events and its
\* agent_end
C8_Witness ==
    \E t \in {1, 2} :
        /\ EventsOfTurn("stt_output", t) # {}
        /\ Cardinality(EventsOfTurn("agent_chunk", t)) = 2
        /\ EventsOfTurn("agent_end", t) # {}

AssistantPersisted(t) ==
    \E k \in DOMAIN persisted :
        persisted[k].role = "assistant" /\ persisted[k].turn = t

\* C9: an assistant message is persisted for a turn iff the LLM stage
\* produced at least one token for it: no message for a turn without a
\* token, and once the session has returned a message for every turn that
\* emitted a token
C9_AssistantIffToken ==
    \A t \in {events[i].turn : i \in EventsOf("stt_output")} :
        /\ AssistantPersisted(t) => EventsOfTurn("agent_chunk", t) # {}
        /\ (mainPc = "returned" /\ EventsOfTurn("agent_chunk", t) # {})
              => AssistantPersisted(t)

RECURSIVE ConcatTexts(_)
ConcatTexts(seq) ==
    IF seq = <<>> THEN <<>> ELSE Head(seq).text \o ConcatTexts(Tail(seq))

IsChunkOf(e, t) == e.type = "agent_chunk" /\ e.turn = t

ChunkTexts(t) == ConcatTexts(SelectSeq(events, LAMBDA e : IsChunkOf(e, t)))

EnqueuedTexts(t) == ConcatTexts(SelectSeq(enqueued, LAMBDA e : e.turn = t))

\* C10: the content of a persisted assistant message is the concatenation,
\* in emission order, of the turn's agent_chunk texts, and the concatenation
\* of the tokens enqueued on llmOut for the turn
C10_ContentIsConcatenation ==
    \A k \in DOMAIN persisted :
        persisted[k].role = "assistant"
            => /\ persisted[k].content = ChunkTexts(persisted[k].turn)
               /\ persisted[k].content = EnqueuedTexts(persisted[k].turn)

\* C10 witness: an assistant message made of two tokens is persisted
C10_Witness ==
    \E k \in DOMAIN persisted :
        /\ persisted[k].role = "assistant"
        /\ Cardinality(EventsOfTurn("agent_chunk", persisted[k].turn)) = 2
        /\ Len(persisted[k].content) = 3

UserMsgs == SelectSeq(persisted, LAMBDA m : m.role = "user")

FinalsIn(seq) == Len(SelectSeq(seq, LAMBDA x : ~x.partial))

\* the final transcripts the STT adapter has put on its output channel
FinalsEmitted ==
    nFinals - (IF sttRecvPc = "push" /\ ~sttRecvCur.partial THEN 1 ELSE 0)

\* the final transcripts runSTT has taken and has persisted or passed by
FinalsHandled ==
    FinalsEmitted - FinalsIn(transcriptChan.buf)
      - (IF sttPc \in {"emit", "persist"} /\ ~sttCur.partial THEN 1 ELSE 0)

\* C11: a user message is persisted iff the STT adapter emitted a final
\* transcript for it: the persisted user messages are, in order, exactly the
\* final transcripts the adapter emitted and runSTT has handled, one message
\* for each with the transcript's text, and none for a partial transcript
C11_UserIffFinal ==
    /\ Len(UserMsgs) = FinalsHandled
    /\ \A k \in DOMAIN UserMsgs :
          UserMsgs[k] =
              [role |-> "user", turn |-> k, content |-> UtteranceAt(k)]

\* C11 witness: a partial and a final transcript have both been reported to
\* the client and the final one is persisted
C11_Witness ==
    /\ EventsOf("stt_chunk") # {}
    /\ EventsOf("stt_output") # {}
    /\ Len(UserMsgs) = 1
    /\ sttPc = "done"

\* C12: only final transcripts enter the LLM leg: every element of sttOut is
\* final, and the step that handles a partial transcript appends exactly one
\* stt_chunk event and leaves sttOut, the dialogue buffer and the persisted
\* messages unchanged, returning to the head of runSTT's loop
C12_PartialOnlyReported ==
    [][ /\ \A k \in DOMAIN sttOut'.buf : ~sttOut'.buf[k].partial
        /\ (sttPc = "emit" /\ sttCur.partial /\ sttPc' # "emit")
              => /\ Len(events') = Len(events) + 1
                 /\ SubSeq(events', 1, Len(events)) = events
                 /\ events'[Len(events')].type = "stt_chunk"
                 /\ sttOut' = sttOut
                 /\ messages' = messages
                 /\ persisted' = persisted
                 /\ sttPc' = "loop" ]_vars

\* C12 witness: a partial transcript has been reported as stt_chunk and a
\* final transcript is on sttOut
C12_Witness ==
    /\ EventsOf("stt_chunk") # {}
    /\ sttOut.buf # <<>>
    /\ nPartials = 1

\* the tasks inside the client-socket write, conn.WriteJSON
InWrite == {t \in Tasks : sendEventPc[t] = "write"}

\* C13: every write to the client socket is made while holding the session's
\* mutex, and no two tasks are inside a client-socket write at the same time
C13_WritesUnderMutex ==
    /\ \A t \in InWrite : mu = t
    /\ Cardinality(InWrite) <= 1

\* C13 witness: one task is inside the write while the four others wait in
\* Lock
C13_Witness ==
    /\ Cardinality(InWrite) = 1
    /\ \A t \in Tasks \ InWrite : sendEventPc[t] = "lock"

\* the tokens the sender has received from the token channel, in order
ReceivedTokens == SubSeq(enqueued, 1, Len(enqueued) - Len(llmOut.buf))

NoSpace(t) == SelectSeq(t, LAMBDA c : ~IsSpace(c))

\* the sender has stopped without a connection failure
SenderEnded == ttsSendPc = "done" /\ ~ttsConnFailed

\* C15: when the token channel closes while the trimmed buffer is non-empty,
\* the sender submits the remaining text, once, in the step in which it
\* exits, whether or not it is waiting for the done of an earlier submission
C15_FlushOnClose ==
    [][ ( /\ ttsSendPc = "select" /\ ttsSendPc' = "done"
          /\ IsDrained(llmOut)
          /\ TrimSpace(textBuffer) # <<>>
          /\ ~ttsConnFailed' )
          => submitted' = Append(submitted, [text |-> TrimSpace(textBuffer),
                                             by |-> "closed"]) ]_vars

C17_SingleOutstanding ==
    /\ Len(submitted) <= nDones + 1
    /\ (Len(submitted) = nDones + 1 /\ ttsSendPc \in {"check", "select"})
          => NoSpace(ConcatTexts(submitted) \o textBuffer)
                = NoSpace(ConcatTexts(ReceivedTokens))

\* C17 witness: a second submission is outstanding after the done of the
\* first, and text that arrived meanwhile is held in the buffer
C17_Witness ==
    /\ Len(submitted) = 2 /\ nDones = 1
    /\ ttsSendPc = "select"
    /\ TrimSpace(textBuffer) # <<>>

\* C18: once the sender has stopped without a connection failure, the
\* submitted transcripts concatenated in submission order equal the tokens
\* received concatenated in arrival order, up to whitespace
C18_NoTokenTextLost ==
    SenderEnded
        => NoSpace(ConcatTexts(submitted)) = NoSpace(ConcatTexts(ReceivedTokens))

\* C19: after a provider error message the adapter keeps running and
\* buffered text can still be submitted: once the provider has answered every
\* submission, the last one by an error message, the sender holding text in
\* its buffer is not left waiting for a done message
C19_ErrorReplyReopensGate ==
    ( /\ nErrs > 0 /\ Outstanding = 0 /\ ttsDoneChan = 0
      /\ ttsSendPc \in {"check", "select"} /\ ~ttsConnFailed
      /\ TrimSpace(textBuffer) # <<>> )
        => ~(waitingForDone /\ hasSentText)

\* C14: after the token channel has closed and the adapter's sender and
\* receiver have both exited, the adapter's output channel is closed, so
\* that runTTS and the egress writer can terminate
C14_OutputClosedAfterFlush ==
    (IsDrained(llmOut) /\ ttsSendPc = "done" /\ ttsRecvPc = "done")
        => audioChan.closed

\* C20: the adapter's output channel never holds more than its capacity; a
\* chunk read while the channel is full is dropped, leaving the channel as it
\* is and the receiver back at the head of its loop with the connection not
\* failed; and every done message read raises the sender's gate signal
C20_DropOnFull ==
    [][ /\ Len(audioChan'.buf) <= CapAudioChan
        /\ (ttsRecvPc = "reading" /\ nChunks' = nChunks + 1
              /\ Len(audioChan.buf) = CapAudioChan)
              => /\ audioChan' = audioChan
                 /\ ttsRecvPc' = "loop"
                 /\ ttsConnFailed' = ttsConnFailed
        /\ (ttsRecvPc = "reading" /\ nDones' = nDones + 1)
              => /\ ttsDoneChan' = ttsDoneChan + 1
                 /\ ttsRecvPc' = "loop" ]_vars

\* C20 witness: the second chunk was read while the first still filled the
\* channel, so it was dropped, and the done message read after it has raised
\* the gate signal
C20_Witness ==
    /\ nChunks = 2 /\ audioChan.buf = <<1>>
    /\ nDones = 1 /\ ttsDoneChan = 1
    /\ ttsRecvPc = "loop"

\* the turns the LLM stage has finished with
TurnDone(t) ==
    \/ t < llmCur.text
    \/ t = llmCur.text /\ llmPc \in {"wait", "close", "done"}

\* C21: when creating the tool-agent session failed, the session runs in
\* direct-LLM mode: useLangChain is false, the ready event carries the flag
\* false, the LLM stage keeps the dialogue buffer as the direct variant does,
\* and every turn it has finished with has either an error event (the stream
\* did not open) or its agent_end event and a persisted assistant message
C21_FallbackToDirect ==
    createFailed =>
        /\ ~useLangChain
        /\ \A i \in EventsOf("ready") : events[i].text = ModeFlag(FALSE)
        /\ Len(SelectSeq(messages, LAMBDA m : m.role = "user")) = llmCur.text
        /\ \A t \in 1..llmCur.text :
              TurnDone(t) =>
                  \/ EventsOfTurn("error", t) # {}
                  \/ /\ EventsOfTurn("agent_end", t) # {}
                     /\ AssistantPersisted(t)

\* C21 witness: after a failed CreateAgent the ready event says false and a
\* final transcript has got its two agent_chunk events, its agent_end and
\* its persisted reply
C21_Witness ==
    /\ createFailed
    /\ \E i \in EventsOf("ready") : events[i].text = ModeFlag(FALSE)
    /\ Cardinality(EventsOfTurn("agent_chunk", 1)) = 2
    /\ EventsOfTurn("agent_end", 1) # {}
    /\ AssistantPersisted(1)
    /\ Len(messages) = 2


\* the provider a model name asks for, and the other one
Chosen ==
    IF IsAnthropicName(model) THEN "anthropic"
    ELSE IF IsOpenAIName(model) THEN "openai" ELSE "none"
OtherThan(provider) == IF provider = "anthropic" THEN "openai" ELSE "anthropic"
KeyOf(provider) == IF provider = "anthropic" THEN anthropicKey ELSE openAIKey
DefaultOf(provider) ==
    IF provider = "anthropic" THEN DefaultAnthropic ELSE DefaultOpenAI

\* C22: once Stream has returned: a name with a known prefix went to its
\* provider under its own name when that provider's key is configured; to the
\* other provider under that provider's default model when only the other key
\* is configured; and with no key at all the call returned an error without
\* a request
C22_ProviderSelection ==
    streamResult # NoResult =>
        /\ (Chosen # "none" /\ KeyOf(Chosen) # "") =>
              /\ streamResult.provider = Chosen
              /\ streamResult.model = model
              /\ streamResult.requests = 1
        /\ (Chosen # "none" /\ KeyOf(Chosen) = ""
            /\ KeyOf(OtherThan(Chosen)) # "") =>
              /\ streamResult.provider = OtherThan(Chosen)
              /\ streamResult.model = DefaultOf(OtherThan(Chosen))
              /\ streamResult.requests = 1
        /\ (anthropicKey = "" /\ openAIKey = "") =>
              /\ streamResult.err
              /\ streamResult.requests = 0

\* C22 for the first definition of Stream alone
C22_FirstDefinition == streamResult.def = 1 => C22_ProviderSelection


\* the final transcripts runSTT has queued on sttOut
FinalsQueued == Cardinality(EventsOf("stt_output")) -
                (IF sttPc \in {"persist", "push"} /\ ~sttCur.partial THEN 1 ELSE 0)

\* the LLM stage has finished turn t: its stream ended with agent_end and
\* the persisted reply, or did not open and was reported
TurnFinished(t) ==
    \/ EventsOfTurn("agent_end", t) # {} /\ AssistantPersisted(t)
    \/ EventsOfTurn("error", t) # {}

\* the closing of the transcript channel has gone through the stages
ClosePropagated ==
    /\ sttOut.closed
    /\ llmOut.closed
    /\ \A t \in 1..FinalsQueued : TurnFinished(t)
    /\ sttPc = "done" /\ sttSendPc # "run"

\* C23: when the transcript channel of the STT adapter closes in a live
\* session, runSTT closes sttOut, the LLM stage finishes every final
\* transcript already queued and then closes llmOut, and no new STT
\* connection is opened.  Stated on finite runs: a state in which the
\* transcript channel is closed and nothing can happen any more is a state
\* in which both channels are closed, every queued final transcript has been
\* finished and runSTT has returned.
C23_TranscriptCloseDrains ==
    (transcriptChan.closed /\ ~ENABLED NextTurn) => ClosePropagated

\* C23 where the consumer of llmOut keeps receiving
C23_DrainsUnlessBlocked ==
    (transcriptChan.closed /\ ~ENABLED NextTurn /\ ~LLMBlocked)
        => ClosePropagated

\* C23, the order: llmOut is closed only after sttOut was closed and drained
\* and every queued final transcript was finished; sttOut is closed only by
\* the returning runSTT, which opens the one connection of the session
C23_CloseOrder ==
    /\ llmOut.closed =>
          /\ IsDrained(sttOut)
          /\ \A t \in 1..FinalsQueued : TurnFinished(t)
    /\ sttOut.closed => sttPc = "done"
    /\ transcriptChan.closed => sttPc \notin {"idle", "init"}


\* the two sub-tasks of each adapter have exited, or were never started
\* because the stream did not open
AdaptersExited ==
    /\ sttSendPc \in {"idle", "done"} /\ sttRecvPc \in {"idle", "done"}
    /\ ttsSendPc \in {"idle", "done"} /\ ttsRecvPc \in {"idle", "done"}

\* every provider socket that was opened is closed
SocketsClosed ==
    /\ sttRecvPc # "idle" => sttConnClosed
    /\ ttsRecvPc # "idle" => ttsConnClosed

\* C24: after the session context is cancelled every task exits (the four
\* stages and both sub-tasks of each adapter) and both provider sockets are
\* closed, also when the providers send nothing further.  Stated on finite
\* runs: a state after the cancellation in which nothing can happen unless a
\* provider or the client sends a message is a state in which all tasks have
\* exited and the sockets are closed.
C24_CancelStopsEverything ==
    (ctxDone /\ ~ENABLED UnpromptedStep)
        => StagesExited /\ AdaptersExited /\ SocketsClosed

\* C24 witness: the context is cancelled while sub-tasks of both adapters
\* are still running
C24_Witness ==
    /\ ctxDone
    /\ sttSendPc = "run"
    /\ ttsSendPc \notin {"idle", "done"}

\* C24 witness for the outcome: after the cancellation all tasks of a
\* session whose two streams were opened have exited
C24_WitnessExited ==
    /\ ctxDone /\ StagesExited /\ AdaptersExited /\ SocketsClosed
    /\ sttRecvPc = "done" /\ ttsRecvPc = "done"


Ended == conversation.EndedAt # Nil

\* C25: End is idempotent: a call of End on a Conversation that was already
\* ended leaves its ended-at timestamp and its duration as the first call
\* set them
C25_EndIdempotent ==
    [][Ended => /\ conversation'.EndedAt = conversation.EndedAt
                /\ conversation'.DurationSecs = conversation.DurationSecs]_vars

RowsOf(table, field, id) == {r \in DOMAIN table : table[r][field] = id}

\* a row is stored with deleted_at set and no get or list returns it
Gone(table, id) ==
    /\ id \in DOMAIN table
    /\ table[id].DeletedAt
    /\ ~Found(table, id)

\* a conversation and its messages are gone: GetByID fails and
\* ListByConversationID is empty
ConversationGone(c) ==
    /\ Gone(db.conversations, c)
    /\ \A m \in RowsOf(db.messages, "conversation_id", c) : Gone(db.messages, m)
    /\ FindBy(db.messages, "conversation_id", c) = {}

\* an agent, its conversations with their messages and its API keys are gone
AgentGone(a) ==
    /\ Gone(db.agents, a)
    /\ \A c \in RowsOf(db.conversations, "agent_id", a) : ConversationGone(c)
    /\ FindBy(db.conversations, "agent_id", a) = {}
    /\ \A k \in RowsOf(db.api_keys, "agent_id", a) : Gone(db.api_keys, k)

\* C27: after AgentRepository.Delete(id) has returned without an error, the
\* agent, all its conversations, all their messages and all its API keys
\* are soft-deleted: every one of them is still stored with deleted_at set,
\* and none is returned by a get or list
C27_AgentCascade ==
    (lastCall.repo = "agent" /\ ~lastCall.err) => AgentGone(lastCall.id)

\* C27 witness: the deleted agent had a conversation with a message and an
\* API key, and another agent's rows are untouched
C27_Witness ==
    /\ lastCall = [repo |-> "agent", id |-> "a1", err |-> FALSE]
    /\ db.conversations["c1"].agent_id = "a1"
    /\ db.messages["m1"].conversation_id = "c1"
    /\ db.api_keys["k1"].agent_id = "a1"
    /\ AgentGone("a1")
    /\ Found(db.agents, "a2") /\ Found(db.conversations, "c2")

\* C28: after UserRepository.Delete(id) has returned without an error, the
\* user, all their agents, the agents' conversations and the conversations'
\* messages are soft-deleted
C28_UserCascade ==
    (lastCall.repo = "user" /\ ~lastCall.err) =>
        /\ Gone(db.users, lastCall.id)
        /\ \A a \in RowsOf(db.agents, "user_id", lastCall.id) : AgentGone(a)

\* C28, the part that holds: the user's own row is soft-deleted
C28_UserRowOnly ==
    (lastCall.repo = "user" /\ ~lastCall.err) => Gone(db.users, lastCall.id)


\* the Cartesia receiver's ReadMessage is performed in this step
TTSReads == ttsRecvPc = "reading" /\ ttsRecvPc' # "reading"

\* the Cartesia sender's write of a submission succeeds in this step
TTSWrites == submitted' # submitted

\* C29: once the connection-failed flag of the TTS adapter is set, neither
\* the sender nor the receiver performs a further read or write on the
\* provider socket, in any interleaving of the two
C29_NoIoAfterFailure ==
    [][ttsConnFailed => ~TTSReads /\ ~TTSWrites]_vars

\* C29, the exits: with the flag set, a state in which nothing can happen
\* unless a provider or the client sends a message has both sub-tasks exited
C29_BothExit ==
    (ttsConnFailed /\ ~ENABLED UnpromptedStep)
        => ttsSendPc = "done" /\ ttsRecvPc = "done"


\* the AssemblyAI sender writes to the provider socket in this step: an audio
\* frame or the Terminate message
STTWrites ==
    /\ sttSendPc = "run"
    /\ sttSendPc' # "run" \/ Len(audioIn'.buf) < Len(audioIn.buf)

\* the AssemblyAI receiver's ReadMessage is performed in this step
STTReads == sttRecvPc = "reading" /\ sttRecvPc' # "reading"

\* C30: after a read or write error in the STT adapter neither sub-task
\* performs another read or write on the provider socket
C30_NoIoAfterFailure ==
    [][sttConnFailed => ~STTReads /\ ~STTWrites]_vars

\* C30, the termination: after a read error, a state in which nothing can
\* happen unless the client or a provider sends a message has both sub-tasks
\* exited and the transcript channel closed
C30_BothTerminate ==
    (sttConnFailed /\ ~ENABLED UnpromptedStep)
        => /\ sttSendPc = "done" /\ sttRecvPc = "done"
           /\ transcriptChan.closed

\* C30, the receiver's half: after a read error the receiver reads no more,
\* exits, closes the socket and the transcript channel
C30_ReceiverStops ==
    /\ sttConnFailed => sttRecvPc \in {"exit", "done"}
    /\ sttRecvPc = "done" => sttConnClosed /\ transcriptChan.closed


(***************************************************************************)
(* C31: whenever an adapter's receiver task exits, on every exit path, the *)
(* adapter's output channel ends up closed (transcriptChan of the STT      *)
(* adapter, audioChan of the TTS adapter) and the exit discards no element *)
(* that was already enqueued on it: the step that runs the receiver's      *)
(* defers closes the channel and leaves its buffer as it was.              *)
(***************************************************************************)
STTReceiverExits == sttRecvPc = "exit" /\ sttRecvPc' = "done"
TTSReceiverExits == ttsRecvPc = "exit" /\ ttsRecvPc' = "done"

C31_ExitClosesOutput ==
    [][/\ STTReceiverExits => transcriptChan' = Close(transcriptChan)
       /\ TTSReceiverExits => audioChan' = Close(audioChan)]_vars

\* C31, the half of the STT adapter: its receiver's exit closes
\* transcriptChan and keeps what is buffered on it
C31_TranscriptClosedOnExit ==
    [][STTReceiverExits => transcriptChan' = Close(transcriptChan)]_vars

\* C31, what the TTS adapter does instead: its receiver's exit closes
\* audioChan exactly when nothing is buffered on it, and else takes the
\* oldest buffered chunk off it and leaves it open
C31_AudioClosedOnlyWhenEmpty ==
    [][TTSReceiverExits =>
         IF audioChan.buf = <<>>
           THEN audioChan' = Close(audioChan)
           ELSE /\ ~audioChan'.closed
                /\ audioChan'.buf = Tail(audioChan.buf)]_vars


(***************************************************************************)
(* C32: the TTS receiver tolerates and recovers from at least 3            *)
(* consecutive transient (non-timeout, non-close) read errors before it    *)
(* declares connection failure; a successful read or a read timeout resets *)
(* the count to zero, and read timeouts alone never cause failure.         *)
(***************************************************************************)
\* a read returns successfully: a message of any type
TTSReadOk == \E kind \in {"chunk", "done", "error", "other"} : TTSRecvRead(kind)

\* the read declares connection failure
DeclaresFailure == ~ttsConnFailed /\ ttsConnFailed'

\* C32: a read that ends in a transient error declares connection failure
\* only when at least 3 reads in a row have ended in an error before it;
\* a successful read and a read timeout set the count to zero and declare
\* no failure
C32_ToleratesThreeErrors ==
    [][/\ TTSRecvRead("neterr") /\ DeclaresFailure
            => errorRun >= maxConsecutiveErrors
       /\ TTSReadOk \/ TTSRecvRead("timeout")
            => consecutiveErrors' = 0 /\ ~DeclaresFailure]_vars

\* C32, what the receiver does: with read errors only, it recovers from the
\* first and the second in a row and declares failure at the third
C32_FailsAtThirdError ==
    [][TTSRecvRead("neterr") /\ errorRun = consecutiveErrors
          => /\ DeclaresFailure <=> errorRun + 1 >= maxConsecutiveErrors
             /\ ~DeclaresFailure => ttsRecvPc' = "loop"]_vars

\* C32, the second half: a successful read or a read timeout resets the
\* count, declares no failure and lets the receiver go on
C32_TimeoutResets ==
    [][TTSReadOk \/ TTSRecvRead("timeout")
          => /\ consecutiveErrors' = 0
             /\ ~DeclaresFailure
             /\ ttsRecvPc' = "loop"]_vars

(***************************************************************************)
(* C33: a panic raised by the read in the TTS receive loop, of any kind,   *)
(* is caught inside the adapter and treated as connection failure: the     *)
(* connection-failed flag is set and the receiver exits without reading    *)
(* again.                                                                  *)
(***************************************************************************)
C33_PanicIsFailure ==
    [][TTSRecvRead("panic") \/ TTSRecvRead("panicDead")
          => ttsConnFailed' /\ ttsRecvPc' = "exit"]_vars

\* C33, the panics the receiver does treat as connection failure: those
\* whose text names a dead connection
C33_DeadPanicIsFailure ==
    [][TTSRecvRead("panicDead") => ttsConnFailed' /\ ttsRecvPc' = "exit"]_vars

\* C33, any other panic: it counts as two read errors, so the receiver
\* exits only if a read error came right before it
C33_PanicCountsTwice ==
    [][TTSRecvRead("panic")
          => /\ consecutiveErrors' = consecutiveErrors + 2
             /\ ttsConnFailed' <=>
                  (ttsConnFailed \/ consecutiveErrors + 2 >= maxConsecutiveErrors)
             /\ ttsRecvPc' = IF consecutiveErrors + 2 >= maxConsecutiveErrors
                               THEN "exit" ELSE "loop"]_vars


(***************************************************************************)
(* C34: in every session the ready event is the first event written to the *)
(* client and is written exactly once, before any stage task is started;   *)
(* no event is written after session_end, and no event is written after    *)
(* the server has closed the client socket.                                *)
(***************************************************************************)
StagesStarted ==
    sttPc # "idle" \/ llmPc # "idle" \/ ttsPc # "idle" \/ egressPc # "idle"

ReadyFirstAndOnce ==
    /\ events # <<>> => events[1].type = "ready"
    /\ Cardinality(EventsOf("ready")) <= 1
    /\ StagesStarted => Cardinality(EventsOf("ready")) = 1

NothingAfterSessionEnd ==
    \A i \in DOMAIN events : events[i].type = "session_end" => i = Len(events)

C34_ReadyFirstEndLast ==
    /\ [](ReadyFirstAndOnce /\ NothingAfterSessionEnd)
    /\ [][connClosed => events' = events]_vars

\* C34 happens: the session has returned after a turn; ready was the first
\* of several events, session_end the last, and the socket is closed
C34_Witness ==
    /\ mainPc = "returned" /\ connClosed
    /\ Len(events) >= 4
    /\ events[1].type = "ready"
    /\ events[Len(events)].type = "session_end"
    /\ EventsOf("agent_end") # {}


(***************************************************************************)
(* C35: the LLM stage handles final transcripts strictly one at a time in  *)
(* FIFO order: all tokens enqueued on llmOut and all agent_chunk events of *)
(* turn N come before those of turn N+1, and exactly one agent_end is      *)
(* emitted for each turn whose stream was opened, never for a turn whose   *)
(* stream failed to open.                                                  *)
(***************************************************************************)
\* the stream of turn t failed to open: the stage wrote its error event
OpenFailed(t) == EventsOfTurn("error", t) # {}

C35_OneTurnAtATime ==
    /\ \A i, j \in DOMAIN events :
          (i < j /\ events[i].type \in AgentTypes
                 /\ events[j].type \in AgentTypes)
              => events[i].turn <= events[j].turn
    /\ \A i, j \in DOMAIN enqueued :
          i < j => enqueued[i].turn <= enqueued[j].turn
    /\ \A t \in 1..env.finals :
          /\ Cardinality(EventsOfTurn("agent_end", t)) <= 1
          /\ OpenFailed(t) =>
                /\ EventsOfTurn("agent_end", t) = {}
                /\ EventsOfTurn("agent_chunk", t) = {}
          /\ (TurnDone(t) /\ ~OpenFailed(t)) =>
                Cardinality(EventsOfTurn("agent_end", t)) = 1

\* C35 happens: two turns were streamed, tokens of both were enqueued and
\* both have their agent_end
C35_Witness ==
    /\ EventsOfTurn("agent_end", 1) # {}
    /\ EventsOfTurn("agent_end", 2) # {}
    /\ \E i, j \in DOMAIN enqueued :
          enqueued[i].turn = 1 /\ enqueued[j].turn = 2

\* C35 happens for a failed turn too: the stream of turn 1 did not open and
\* turn 2 was streamed to its agent_end
C35_WitnessFailedOpen ==
    /\ OpenFailed(1)
    /\ EventsOfTurn("agent_chunk", 2) # {}
    /\ EventsOfTurn("agent_end", 2) # {}


(***************************************************************************)
(* C36: in direct-LLM mode the dialogue sent to the provider at every      *)
(* request strictly alternates user, assistant, user, ... and ends with    *)
(* the new user turn, after any sequence of turns, including turns whose   *)
(* stream failed to open or produced no token.                             *)
(***************************************************************************)
\* the stage is about to send the request: it holds the copy of
\* session.messages made after the user turn was appended
RequestSent == llmPc = "open" /\ ~useLangChain

Alternates(dialogue) ==
    \A i \in DOMAIN dialogue :
        dialogue[i].role = IF i % 2 = 1 THEN "user" ELSE "assistant"

EndsWithNewUserTurn(dialogue) ==
    /\ dialogue # <<>>
    /\ dialogue[Len(dialogue)] =
          [role |-> "user", content |-> llmCur.text]

C36_DialogueAlternates ==
    RequestSent => Alternates(messages) /\ EndsWithNewUserTurn(messages)

\* C36, the part that holds after every sequence of turns: the dialogue of
\* a request ends with the new user turn
C36_EndsWithUserTurn == RequestSent => EndsWithNewUserTurn(messages)

\* C36, what the stage does: the dialogue alternates as long as no stream
\* has failed to open; a turn whose stream failed leaves its user turn in
\* the buffer with no assistant turn after it
C36_AlternatesUnlessOpenFailed ==
    (RequestSent /\ \A t \in 1..env.finals : ~OpenFailed(t))
        => Alternates(messages)


(***************************************************************************)
(* C37: messages of a conversation are persisted in non-decreasing         *)
(* start-offset order: a message inserted later never carries a smaller    *)
(* start offset than one inserted earlier, under every interleaving of the *)
(* STT stage (user messages) and the LLM stage (assistant messages);       *)
(* within a turn the user message is inserted before the assistant         *)
(* message.                                                                *)
(***************************************************************************)
UserBeforeAssistant ==
    \A j \in DOMAIN messageRows :
        messageRows[j].Role = "assistant" =>
            \E i \in 1..(j - 1) :
                /\ messageRows[i].Role = "user"
                /\ messageRows[i].turn = messageRows[j].turn

C37_OffsetsNonDecreasing ==
    /\ \A i, j \in DOMAIN messageRows :
          i < j => messageRows[i].StartTime <= messageRows[j].StartTime
    /\ UserBeforeAssistant

\* C37, the part that holds: within a turn the user message is inserted
\* before the assistant message, and the messages of one stage are inserted
\* in non-decreasing start-offset order
C37_OrderedPerStage ==
    /\ UserBeforeAssistant
    /\ \A i, j \in DOMAIN messageRows :
          (i < j /\ messageRows[i].Role = messageRows[j].Role)
              => messageRows[i].StartTime <= messageRows[j].StartTime


(***************************************************************************)
(* C38: the session id reported to the client in the ready event is the    *)
(* session id stored on the Conversation record created for that session.  *)
(***************************************************************************)
C38_ReadySessionID ==
    handshake.ready.sent =>
        /\ handshake.conversation.created
        /\ handshake.ready.session_id = handshake.conversation.SessionID

\* C38, what the program does: the ready event carries the id that
\* NewSession made, and the Conversation the id that the handler made
C38_ReadyCarriesNewSessionID ==
    handshake.ready.sent =>
        /\ handshake.conversation.created
        /\ handshake.ready.session_id = handshake.session.ID
        /\ handshake.conversation.SessionID = handshake.sessionID

=============================================================================
